---- MODULE Spec2Model ----
(***************************************************************************)
(* Model of the transcript extractor (services/ai_service.py, AIService)   *)
(* and of the HTTP routes of server.py that call it.                       *)
(*                                                                         *)
(* A Python str is a sequence of one-character strings, so that strip,     *)
(* startswith, slicing, the regular expressions and json.loads are         *)
(* computed character by character as the code computes them.              *)
(*                                                                         *)
(* Characters: the printable ASCII characters other than the backquote,    *)
(* and tab, newline, form feed and carriage return, are the one-character  *)
(* strings themselves.  Every other code point, the backquote included, is *)
(* the string "U+" followed by its code point in at least four uppercase   *)
(* hexadecimal digits: "U+0060", "U+00E9", "U+1F600".  isspace, isupper,   *)
(* lower and the character classes of re follow Unicode 14 (CPython 3.11). *)
(*                                                                         *)
(* A JSON number is kept as the text of its literal; the code never        *)
(* compares or computes with one, it only tests whether it is zero.        *)
(* json.loads is modelled with its error messages.  Outside the model:     *)
(* RecursionError, which json.loads raises on a document nested deeper     *)
(* than the interpreter's recursion limit allows at the point of the call. *)
(***************************************************************************)
EXTENDS Integers, Sequences, FiniteSets, TLC

(***************************************************************************)
(* Characters and the str methods the code uses                            *)
(***************************************************************************)
\* the characters U+0020 .. U+007E, in the order of their code points
Printable ==
    <<" ","!","\"","#","$","%","&","'","(",")","*","+",",","-",".","/","0","1","2","3","4",
       "5","6","7","8","9",":",";","<","=",">","?","@","A","B","C","D","E","F","G","H","I",
       "J","K","L","M","N","O","P","Q","R","S","T","U","V","W","X","Y","Z","[","\\","]","^",
       "_","U+0060","a","b","c","d","e","f","g","h","i","j","k","l","m","n","o","p","q","r",
       "s","t","u","v","w","x","y","z","{","|","}","~">>

HexDigits ==
    <<"0","1","2","3","4","5","6","7","8","9","A","B","C","D","E","F">>

HexDigitsLower ==
    <<"0","1","2","3","4","5","6","7","8","9","a","b","c","d","e","f">>

\* the value of hexadecimal digit c, or -1
HexVal(c) ==
    IF \E k \in 1..16 : c \in {HexDigits[k], HexDigitsLower[k]}
    THEN (CHOOSE k \in 1..16 : c \in {HexDigits[k], HexDigitsLower[k]}) - 1
    ELSE -1

\* whether c is a character written by the name of its code point, U+XXXX
IsCodeName(c) == Len(c) > 2 /\ SubSeq(c, 1, 2) = "U+"

RECURSIVE HexNumber(_, _)
\* the number the first n hexadecimal digits of text denote
HexNumber(text, n) ==
    IF n = 0 THEN 0
    ELSE 16 * HexNumber(text, n - 1) + HexVal(SubSeq(text, n, n))

RECURSIVE HexName(_, _)
\* n in hexadecimal digits, at least width of them
HexName(n, width) ==
    IF n = 0 /\ width <= 0 THEN ""
    ELSE HexName(n \div 16, width - 1) \o HexDigits[(n % 16) + 1]

\* ord(c)
Ord(c) ==
    IF IsCodeName(c) THEN HexNumber(SubSeq(c, 3, Len(c)), Len(c) - 2)
    ELSE CASE c = "\t" -> 9
           [] c = "\n" -> 10
           [] c = "\f" -> 12
           [] c = "\r" -> 13
           [] OTHER -> 31 + CHOOSE k \in 1..Len(Printable) : Printable[k] = c

\* chr(n)
Chr(n) ==
    IF n >= 32 /\ n <= 126 THEN Printable[n - 31]
    ELSE CASE n = 9  -> "\t"
           [] n = 10 -> "\n"
           [] n = 12 -> "\f"
           [] n = 13 -> "\r"
           [] OTHER  -> "U+" \o HexName(n, 4)

\* whether n lies in the run that starts at runs[at]: first, last, step
InRun(n, runs, at) ==
    /\ n >= runs[at]
    /\ n <= runs[at + 1]
    /\ (n - runs[at]) % runs[at + 2] = 0

\* whether n lies in one of the runs, each of width numbers
InRanges(n, runs, width) ==
    \E k \in 0..(Len(runs) \div width - 1) : InRun(n, runs, width * k + 1)

\* the class [A-Z] of the re module
UpperAZ(c) ==
    c \in {"A", "B", "C", "D", "E", "F", "G", "H", "I", "J", "K", "L", "M",
           "N", "O", "P", "Q", "R", "S", "T", "U", "V", "W", "X", "Y", "Z"}

\* the class [a-z] of the re module
LowerAZ(c) ==
    c \in {"a", "b", "c", "d", "e", "f", "g", "h", "i", "j", "k", "l", "m",
           "n", "o", "p", "q", "r", "s", "t", "u", "v", "w", "x", "y", "z"}

IsDigit(c) == c \in {"0", "1", "2", "3", "4", "5", "6", "7", "8", "9"}

\* the characters for which str.isspace() is true
SpaceChars ==
    {" ", "\t", "\n", "\f", "\r", "U+000B", "U+001C", "U+001D", "U+001E",
     "U+001F", "U+0085", "U+00A0", "U+1680", "U+2000", "U+2001", "U+2002",
     "U+2003", "U+2004", "U+2005", "U+2006", "U+2007", "U+2008", "U+2009",
     "U+200A", "U+2028", "U+2029", "U+202F", "U+205F", "U+3000"}

\* str.isspace() of one character: \s of the re module, and the characters
\* str.strip() removes
IsSpace(c) == c \in SpaceChars

\* the code points above U+007F for which str.isupper() is true, as runs
\* first, last, step, one after the other
UppercaseRanges ==
    <<
      192, 214, 1, 216, 222, 1, 256, 310, 2, 313, 327, 2,
      330, 376, 2, 377, 381, 2, 385, 386, 1, 388, 390, 2,
      391, 393, 2, 394, 395, 1, 398, 401, 1, 403, 404, 1,
      406, 408, 1, 412, 413, 1, 415, 416, 1, 418, 422, 2,
      423, 425, 2, 428, 430, 2, 431, 433, 2, 434, 435, 1,
      437, 439, 2, 440, 440, 1, 444, 444, 1, 452, 452, 1,
      455, 455, 1, 458, 458, 1, 461, 475, 2, 478, 494, 2,
      497, 497, 1, 500, 502, 2, 503, 504, 1, 506, 562, 2,
      570, 571, 1, 573, 574, 1, 577, 579, 2, 580, 582, 1,
      584, 590, 2, 880, 882, 2, 886, 886, 1, 895, 895, 1,
      902, 904, 2, 905, 906, 1, 908, 910, 2, 911, 913, 2,
      914, 929, 1, 931, 939, 1, 975, 975, 1, 978, 980, 1,
      984, 1006, 2, 1012, 1012, 1, 1015, 1017, 2,
      1018, 1018, 1, 1021, 1071, 1, 1120, 1152, 2,
      1162, 1216, 2, 1217, 1229, 2, 1232, 1326, 2,
      1329, 1366, 1, 4256, 4293, 1, 4295, 4295, 1,
      4301, 4301, 1, 5024, 5109, 1, 7312, 7354, 1,
      7357, 7359, 1, 7680, 7828, 2, 7838, 7934, 2,
      7944, 7951, 1, 7960, 7965, 1, 7976, 7983, 1,
      7992, 7999, 1, 8008, 8013, 1, 8025, 8031, 2,
      8040, 8047, 1, 8120, 8123, 1, 8136, 8139, 1,
      8152, 8155, 1, 8168, 8172, 1, 8184, 8187, 1,
      8450, 8450, 1, 8455, 8455, 1, 8459, 8461, 1,
      8464, 8466, 1, 8469, 8469, 1, 8473, 8477, 1,
      8484, 8490, 2, 8491, 8493, 1, 8496, 8499, 1,
      8510, 8511, 1, 8517, 8517, 1, 8544, 8559, 1,
      8579, 8579, 1, 9398, 9423, 1, 11264, 11311, 1,
      11360, 11362, 2, 11363, 11364, 1, 11367, 11373, 2,
      11374, 11376, 1, 11378, 11378, 1, 11381, 11381, 1,
      11390, 11392, 1, 11394, 11490, 2, 11499, 11501, 2,
      11506, 11506, 1, 42560, 42604, 2, 42624, 42650, 2,
      42786, 42798, 2, 42802, 42862, 2, 42873, 42877, 2,
      42878, 42886, 2, 42891, 42893, 2, 42896, 42898, 2,
      42902, 42922, 2, 42923, 42926, 1, 42928, 42932, 1,
      42934, 42948, 2, 42949, 42951, 1, 42953, 42953, 1,
      42960, 42960, 1, 42966, 42968, 2, 42997, 42997, 1,
      65313, 65338, 1, 66560, 66599, 1, 66736, 66771, 1,
      66928, 66938, 1, 66940, 66954, 1, 66956, 66962, 1,
      66964, 66965, 1, 68736, 68786, 1, 71840, 71871, 1,
      93760, 93791, 1, 119808, 119833, 1, 119860, 119885, 1,
      119912, 119937, 1, 119964, 119966, 2, 119967, 119967, 1,
      119970, 119970, 1, 119973, 119974, 1, 119977, 119980, 1,
      119982, 119989, 1, 120016, 120041, 1, 120068, 120069, 1,
      120071, 120074, 1, 120077, 120084, 1, 120086, 120092, 1,
      120120, 120121, 1, 120123, 120126, 1, 120128, 120132, 1,
      120134, 120134, 1, 120138, 120144, 1, 120172, 120197, 1,
      120224, 120249, 1, 120276, 120301, 1, 120328, 120353, 1,
      120380, 120405, 1, 120432, 120457, 1, 120488, 120512, 1,
      120546, 120570, 1, 120604, 120628, 1, 120662, 120686, 1,
      120720, 120744, 1, 120778, 120778, 1, 125184, 125217, 1,
      127280, 127305, 1, 127312, 127337, 1, 127344, 127369, 1
    >>

\* the code points above U+007F that str.lower() maps to one other code
\* point, as runs first, last, step, shift, one after the other: code point
\* c of a run becomes c + shift
LowercaseShifts ==
    <<
      192, 214, 1, 32, 216, 222, 1, 32, 256, 302, 2, 1,
      306, 310, 2, 1, 313, 327, 2, 1, 330, 374, 2, 1,
      376, 376, 1, -121, 377, 381, 2, 1, 385, 385, 1, 210,
      386, 388, 2, 1, 390, 390, 1, 206, 391, 391, 1, 1,
      393, 394, 1, 205, 395, 395, 1, 1, 398, 398, 1, 79,
      399, 399, 1, 202, 400, 400, 1, 203, 401, 401, 1, 1,
      403, 403, 1, 205, 404, 404, 1, 207, 406, 406, 1, 211,
      407, 407, 1, 209, 408, 408, 1, 1, 412, 412, 1, 211,
      413, 413, 1, 213, 415, 415, 1, 214, 416, 420, 2, 1,
      422, 422, 1, 218, 423, 423, 1, 1, 425, 425, 1, 218,
      428, 428, 1, 1, 430, 430, 1, 218, 431, 431, 1, 1,
      433, 434, 1, 217, 435, 437, 2, 1, 439, 439, 1, 219,
      440, 440, 1, 1, 444, 444, 1, 1, 452, 452, 1, 2,
      453, 453, 1, 1, 455, 455, 1, 2, 456, 456, 1, 1,
      458, 458, 1, 2, 459, 475, 2, 1, 478, 494, 2, 1,
      497, 497, 1, 2, 498, 500, 2, 1, 502, 502, 1, -97,
      503, 503, 1, -56, 504, 542, 2, 1, 544, 544, 1, -130,
      546, 562, 2, 1, 570, 570, 1, 10795, 571, 571, 1, 1,
      573, 573, 1, -163, 574, 574, 1, 10792, 577, 577, 1, 1,
      579, 579, 1, -195, 580, 580, 1, 69, 581, 581, 1, 71,
      582, 590, 2, 1, 880, 882, 2, 1, 886, 886, 1, 1,
      895, 895, 1, 116, 902, 902, 1, 38, 904, 906, 1, 37,
      908, 908, 1, 64, 910, 911, 1, 63, 913, 929, 1, 32,
      931, 939, 1, 32, 975, 975, 1, 8, 984, 1006, 2, 1,
      1012, 1012, 1, -60, 1015, 1015, 1, 1, 1017, 1017, 1, -7,
      1018, 1018, 1, 1, 1021, 1023, 1, -130, 1024, 1039, 1, 80,
      1040, 1071, 1, 32, 1120, 1152, 2, 1, 1162, 1214, 2, 1,
      1216, 1216, 1, 15, 1217, 1229, 2, 1, 1232, 1326, 2, 1,
      1329, 1366, 1, 48, 4256, 4293, 1, 7264,
      4295, 4295, 1, 7264, 4301, 4301, 1, 7264,
      5024, 5103, 1, 38864, 5104, 5109, 1, 8,
      7312, 7354, 1, -3008, 7357, 7359, 1, -3008,
      7680, 7828, 2, 1, 7838, 7838, 1, -7615, 7840, 7934, 2, 1,
      7944, 7951, 1, -8, 7960, 7965, 1, -8, 7976, 7983, 1, -8,
      7992, 7999, 1, -8, 8008, 8013, 1, -8, 8025, 8031, 2, -8,
      8040, 8047, 1, -8, 8072, 8079, 1, -8, 8088, 8095, 1, -8,
      8104, 8111, 1, -8, 8120, 8121, 1, -8, 8122, 8123, 1, -74,
      8124, 8124, 1, -9, 8136, 8139, 1, -86, 8140, 8140, 1, -9,
      8152, 8153, 1, -8, 8154, 8155, 1, -100, 8168, 8169, 1, -8,
      8170, 8171, 1, -112, 8172, 8172, 1, -7,
      8184, 8185, 1, -128, 8186, 8187, 1, -126,
      8188, 8188, 1, -9, 8486, 8486, 1, -7517,
      8490, 8490, 1, -8383, 8491, 8491, 1, -8262,
      8498, 8498, 1, 28, 8544, 8559, 1, 16, 8579, 8579, 1, 1,
      9398, 9423, 1, 26, 11264, 11311, 1, 48, 11360, 11360, 1, 1,
      11362, 11362, 1, -10743, 11363, 11363, 1, -3814,
      11364, 11364, 1, -10727, 11367, 11371, 2, 1,
      11373, 11373, 1, -10780, 11374, 11374, 1, -10749,
      11375, 11375, 1, -10783, 11376, 11376, 1, -10782,
      11378, 11378, 1, 1, 11381, 11381, 1, 1,
      11390, 11391, 1, -10815, 11392, 11490, 2, 1,
      11499, 11501, 2, 1, 11506, 11506, 1, 1, 42560, 42604, 2, 1,
      42624, 42650, 2, 1, 42786, 42798, 2, 1, 42802, 42862, 2, 1,
      42873, 42875, 2, 1, 42877, 42877, 1, -35332,
      42878, 42886, 2, 1, 42891, 42891, 1, 1,
      42893, 42893, 1, -42280, 42896, 42898, 2, 1,
      42902, 42920, 2, 1, 42922, 42922, 1, -42308,
      42923, 42923, 1, -42319, 42924, 42924, 1, -42315,
      42925, 42925, 1, -42305, 42926, 42926, 1, -42308,
      42928, 42928, 1, -42258, 42929, 42929, 1, -42282,
      42930, 42930, 1, -42261, 42931, 42931, 1, 928,
      42932, 42946, 2, 1, 42948, 42948, 1, -48,
      42949, 42949, 1, -42307, 42950, 42950, 1, -35384,
      42951, 42953, 2, 1, 42960, 42960, 1, 1, 42966, 42968, 2, 1,
      42997, 42997, 1, 1, 65313, 65338, 1, 32,
      66560, 66599, 1, 40, 66736, 66771, 1, 40,
      66928, 66938, 1, 39, 66940, 66954, 1, 39,
      66956, 66962, 1, 39, 66964, 66965, 1, 39,
      68736, 68786, 1, 64, 71840, 71871, 1, 32,
      93760, 93791, 1, 32, 125184, 125217, 1, 34
    >>

\* the cased code points that are not case-ignorable, as runs
CasedRanges ==
    <<
      65, 90, 1, 97, 122, 1, 170, 170, 1, 181, 181, 1,
      186, 186, 1, 192, 214, 1, 216, 246, 1, 248, 442, 1,
      444, 447, 1, 452, 659, 1, 661, 687, 1, 880, 883, 1,
      886, 887, 1, 891, 893, 1, 895, 895, 1, 902, 904, 2,
      905, 906, 1, 908, 910, 2, 911, 929, 1, 931, 1013, 1,
      1015, 1153, 1, 1162, 1327, 1, 1329, 1366, 1,
      1376, 1416, 1, 4256, 4293, 1, 4295, 4295, 1,
      4301, 4301, 1, 4304, 4346, 1, 4349, 4351, 1,
      5024, 5109, 1, 5112, 5117, 1, 7296, 7304, 1,
      7312, 7354, 1, 7357, 7359, 1, 7424, 7467, 1,
      7531, 7543, 1, 7545, 7578, 1, 7680, 7957, 1,
      7960, 7965, 1, 7968, 8005, 1, 8008, 8013, 1,
      8016, 8023, 1, 8025, 8031, 2, 8032, 8061, 1,
      8064, 8116, 1, 8118, 8124, 1, 8126, 8126, 1,
      8130, 8132, 1, 8134, 8140, 1, 8144, 8147, 1,
      8150, 8155, 1, 8160, 8172, 1, 8178, 8180, 1,
      8182, 8188, 1, 8450, 8450, 1, 8455, 8455, 1,
      8458, 8467, 1, 8469, 8469, 1, 8473, 8477, 1,
      8484, 8490, 2, 8491, 8493, 1, 8495, 8500, 1,
      8505, 8505, 1, 8508, 8511, 1, 8517, 8521, 1,
      8526, 8526, 1, 8544, 8575, 1, 8579, 8580, 1,
      9398, 9449, 1, 11264, 11387, 1, 11390, 11492, 1,
      11499, 11502, 1, 11506, 11507, 1, 11520, 11557, 1,
      11559, 11559, 1, 11565, 11565, 1, 42560, 42605, 1,
      42624, 42651, 1, 42786, 42863, 1, 42865, 42887, 1,
      42891, 42894, 1, 42896, 42954, 1, 42960, 42961, 1,
      42963, 42965, 2, 42966, 42969, 1, 42997, 42998, 1,
      43002, 43002, 1, 43824, 43866, 1, 43872, 43880, 1,
      43888, 43967, 1, 64256, 64262, 1, 64275, 64279, 1,
      65313, 65338, 1, 65345, 65370, 1, 66560, 66639, 1,
      66736, 66771, 1, 66776, 66811, 1, 66928, 66938, 1,
      66940, 66954, 1, 66956, 66962, 1, 66964, 66965, 1,
      66967, 66977, 1, 66979, 66993, 1, 66995, 67001, 1,
      67003, 67004, 1, 68736, 68786, 1, 68800, 68850, 1,
      71840, 71903, 1, 93760, 93823, 1, 119808, 119892, 1,
      119894, 119964, 1, 119966, 119967, 1, 119970, 119970, 1,
      119973, 119974, 1, 119977, 119980, 1, 119982, 119993, 1,
      119995, 119997, 2, 119998, 120003, 1, 120005, 120069, 1,
      120071, 120074, 1, 120077, 120084, 1, 120086, 120092, 1,
      120094, 120121, 1, 120123, 120126, 1, 120128, 120132, 1,
      120134, 120134, 1, 120138, 120144, 1, 120146, 120485, 1,
      120488, 120512, 1, 120514, 120538, 1, 120540, 120570, 1,
      120572, 120596, 1, 120598, 120628, 1, 120630, 120654, 1,
      120656, 120686, 1, 120688, 120712, 1, 120714, 120744, 1,
      120746, 120770, 1, 120772, 120779, 1, 122624, 122633, 1,
      122635, 122654, 1, 125184, 125251, 1, 127280, 127305, 1,
      127312, 127337, 1, 127344, 127369, 1
    >>

\* the case-ignorable code points, as runs
CaseIgnorableRanges ==
    <<
      39, 39, 1, 46, 46, 1, 58, 58, 1, 94, 96, 2,
      168, 168, 1, 173, 175, 2, 180, 180, 1, 183, 184, 1,
      688, 879, 1, 884, 885, 1, 890, 890, 1, 900, 901, 1,
      903, 903, 1, 1155, 1161, 1, 1369, 1369, 1,
      1375, 1375, 1, 1425, 1469, 1, 1471, 1473, 2,
      1474, 1476, 2, 1477, 1479, 2, 1524, 1524, 1,
      1536, 1541, 1, 1552, 1562, 1, 1564, 1564, 1,
      1600, 1600, 1, 1611, 1631, 1, 1648, 1648, 1,
      1750, 1757, 1, 1759, 1768, 1, 1770, 1773, 1,
      1807, 1809, 2, 1840, 1866, 1, 1958, 1968, 1,
      2027, 2037, 1, 2042, 2042, 1, 2045, 2045, 1,
      2070, 2093, 1, 2137, 2139, 1, 2184, 2184, 1,
      2192, 2193, 1, 2200, 2207, 1, 2249, 2306, 1,
      2362, 2364, 2, 2369, 2376, 1, 2381, 2381, 1,
      2385, 2391, 1, 2402, 2403, 1, 2417, 2417, 1,
      2433, 2433, 1, 2492, 2492, 1, 2497, 2500, 1,
      2509, 2509, 1, 2530, 2531, 1, 2558, 2558, 1,
      2561, 2562, 1, 2620, 2620, 1, 2625, 2626, 1,
      2631, 2632, 1, 2635, 2637, 1, 2641, 2641, 1,
      2672, 2673, 1, 2677, 2677, 1, 2689, 2690, 1,
      2748, 2748, 1, 2753, 2757, 1, 2759, 2760, 1,
      2765, 2765, 1, 2786, 2787, 1, 2810, 2815, 1,
      2817, 2817, 1, 2876, 2876, 1, 2879, 2881, 2,
      2882, 2884, 1, 2893, 2893, 1, 2901, 2902, 1,
      2914, 2915, 1, 2946, 2946, 1, 3008, 3008, 1,
      3021, 3021, 1, 3072, 3072, 1, 3076, 3076, 1,
      3132, 3134, 2, 3135, 3136, 1, 3142, 3144, 1,
      3146, 3149, 1, 3157, 3158, 1, 3170, 3171, 1,
      3201, 3201, 1, 3260, 3260, 1, 3263, 3263, 1,
      3270, 3270, 1, 3276, 3277, 1, 3298, 3299, 1,
      3328, 3329, 1, 3387, 3388, 1, 3393, 3396, 1,
      3405, 3405, 1, 3426, 3427, 1, 3457, 3457, 1,
      3530, 3530, 1, 3538, 3540, 1, 3542, 3542, 1,
      3633, 3633, 1, 3636, 3642, 1, 3654, 3662, 1,
      3761, 3761, 1, 3764, 3772, 1, 3782, 3784, 2,
      3785, 3789, 1, 3864, 3865, 1, 3893, 3897, 2,
      3953, 3966, 1, 3968, 3972, 1, 3974, 3975, 1,
      3981, 3991, 1, 3993, 4028, 1, 4038, 4038, 1,
      4141, 4144, 1, 4146, 4151, 1, 4153, 4154, 1,
      4157, 4158, 1, 4184, 4185, 1, 4190, 4192, 1,
      4209, 4212, 1, 4226, 4226, 1, 4229, 4230, 1,
      4237, 4237, 1, 4253, 4253, 1, 4348, 4348, 1,
      4957, 4959, 1, 5906, 5908, 1, 5938, 5939, 1,
      5970, 5971, 1, 6002, 6003, 1, 6068, 6069, 1,
      6071, 6077, 1, 6086, 6086, 1, 6089, 6099, 1,
      6103, 6103, 1, 6109, 6109, 1, 6155, 6159, 1,
      6211, 6211, 1, 6277, 6278, 1, 6313, 6313, 1,
      6432, 6434, 1, 6439, 6440, 1, 6450, 6450, 1,
      6457, 6459, 1, 6679, 6680, 1, 6683, 6683, 1,
      6742, 6744, 2, 6745, 6750, 1, 6752, 6754, 2,
      6757, 6764, 1, 6771, 6780, 1, 6783, 6783, 1,
      6823, 6823, 1, 6832, 6862, 1, 6912, 6915, 1,
      6964, 6966, 2, 6967, 6970, 1, 6972, 6972, 1,
      6978, 6978, 1, 7019, 7027, 1, 7040, 7041, 1,
      7074, 7077, 1, 7080, 7081, 1, 7083, 7085, 1,
      7142, 7144, 2, 7145, 7145, 1, 7149, 7151, 2,
      7152, 7153, 1, 7212, 7219, 1, 7222, 7223, 1,
      7288, 7293, 1, 7376, 7378, 1, 7380, 7392, 1,
      7394, 7400, 1, 7405, 7405, 1, 7412, 7412, 1,
      7416, 7417, 1, 7468, 7530, 1, 7544, 7544, 1,
      7579, 7679, 1, 8125, 8127, 2, 8128, 8129, 1,
      8141, 8143, 1, 8157, 8159, 1, 8173, 8175, 1,
      8189, 8190, 1, 8203, 8207, 1, 8216, 8217, 1,
      8228, 8228, 1, 8231, 8231, 1, 8234, 8238, 1,
      8288, 8292, 1, 8294, 8303, 1, 8305, 8305, 1,
      8319, 8319, 1, 8336, 8348, 1, 8400, 8432, 1,
      11388, 11389, 1, 11503, 11505, 1, 11631, 11631, 1,
      11647, 11647, 1, 11744, 11775, 1, 11823, 11823, 1,
      12293, 12293, 1, 12330, 12333, 1, 12337, 12341, 1,
      12347, 12347, 1, 12441, 12446, 1, 12540, 12542, 1,
      40981, 40981, 1, 42232, 42237, 1, 42508, 42508, 1,
      42607, 42610, 1, 42612, 42621, 1, 42623, 42623, 1,
      42652, 42655, 1, 42736, 42737, 1, 42752, 42785, 1,
      42864, 42864, 1, 42888, 42890, 1, 42994, 42996, 1,
      43000, 43001, 1, 43010, 43010, 1, 43014, 43014, 1,
      43019, 43019, 1, 43045, 43046, 1, 43052, 43052, 1,
      43204, 43205, 1, 43232, 43249, 1, 43263, 43263, 1,
      43302, 43309, 1, 43335, 43345, 1, 43392, 43394, 1,
      43443, 43443, 1, 43446, 43449, 1, 43452, 43453, 1,
      43471, 43471, 1, 43493, 43494, 1, 43561, 43566, 1,
      43569, 43570, 1, 43573, 43574, 1, 43587, 43587, 1,
      43596, 43596, 1, 43632, 43632, 1, 43644, 43644, 1,
      43696, 43698, 2, 43699, 43700, 1, 43703, 43704, 1,
      43710, 43711, 1, 43713, 43713, 1, 43741, 43741, 1,
      43756, 43757, 1, 43763, 43764, 1, 43766, 43766, 1,
      43867, 43871, 1, 43881, 43883, 1, 44005, 44005, 1,
      44008, 44008, 1, 44013, 44013, 1, 64286, 64286, 1,
      64434, 64450, 1, 65024, 65039, 1, 65043, 65043, 1,
      65056, 65071, 1, 65106, 65106, 1, 65109, 65109, 1,
      65279, 65279, 1, 65287, 65287, 1, 65294, 65294, 1,
      65306, 65306, 1, 65342, 65344, 2, 65392, 65392, 1,
      65438, 65439, 1, 65507, 65507, 1, 65529, 65531, 1,
      66045, 66045, 1, 66272, 66272, 1, 66422, 66426, 1,
      67456, 67461, 1, 67463, 67504, 1, 67506, 67514, 1,
      68097, 68099, 1, 68101, 68102, 1, 68108, 68111, 1,
      68152, 68154, 1, 68159, 68159, 1, 68325, 68326, 1,
      68900, 68903, 1, 69291, 69292, 1, 69446, 69456, 1,
      69506, 69509, 1, 69633, 69633, 1, 69688, 69702, 1,
      69744, 69744, 1, 69747, 69748, 1, 69759, 69761, 1,
      69811, 69814, 1, 69817, 69818, 1, 69821, 69821, 1,
      69826, 69826, 1, 69837, 69837, 1, 69888, 69890, 1,
      69927, 69931, 1, 69933, 69940, 1, 70003, 70003, 1,
      70016, 70017, 1, 70070, 70078, 1, 70089, 70092, 1,
      70095, 70095, 1, 70191, 70193, 1, 70196, 70198, 2,
      70199, 70199, 1, 70206, 70206, 1, 70367, 70367, 1,
      70371, 70378, 1, 70400, 70401, 1, 70459, 70460, 1,
      70464, 70464, 1, 70502, 70508, 1, 70512, 70516, 1,
      70712, 70719, 1, 70722, 70724, 1, 70726, 70726, 1,
      70750, 70750, 1, 70835, 70840, 1, 70842, 70842, 1,
      70847, 70848, 1, 70850, 70851, 1, 71090, 71093, 1,
      71100, 71101, 1, 71103, 71104, 1, 71132, 71133, 1,
      71219, 71226, 1, 71229, 71231, 2, 71232, 71232, 1,
      71339, 71341, 2, 71344, 71349, 1, 71351, 71351, 1,
      71453, 71455, 1, 71458, 71461, 1, 71463, 71467, 1,
      71727, 71735, 1, 71737, 71738, 1, 71995, 71996, 1,
      71998, 71998, 1, 72003, 72003, 1, 72148, 72151, 1,
      72154, 72155, 1, 72160, 72160, 1, 72193, 72202, 1,
      72243, 72248, 1, 72251, 72254, 1, 72263, 72263, 1,
      72273, 72278, 1, 72281, 72283, 1, 72330, 72342, 1,
      72344, 72345, 1, 72752, 72758, 1, 72760, 72765, 1,
      72767, 72767, 1, 72850, 72871, 1, 72874, 72880, 1,
      72882, 72883, 1, 72885, 72886, 1, 73009, 73014, 1,
      73018, 73020, 2, 73021, 73023, 2, 73024, 73029, 1,
      73031, 73031, 1, 73104, 73105, 1, 73109, 73111, 2,
      73459, 73460, 1, 78896, 78904, 1, 92912, 92916, 1,
      92976, 92982, 1, 92992, 92995, 1, 94031, 94031, 1,
      94095, 94111, 1, 94176, 94177, 1, 94179, 94180, 1,
      110576, 110579, 1, 110581, 110587, 1, 110589, 110590, 1,
      113821, 113822, 1, 113824, 113827, 1, 118528, 118573, 1,
      118576, 118598, 1, 119143, 119145, 1, 119155, 119170, 1,
      119173, 119179, 1, 119210, 119213, 1, 119362, 119364, 1,
      121344, 121398, 1, 121403, 121452, 1, 121461, 121461, 1,
      121476, 121476, 1, 121499, 121503, 1, 121505, 121519, 1,
      122880, 122886, 1, 122888, 122904, 1, 122907, 122913, 1,
      122915, 122916, 1, 122918, 122922, 1, 123184, 123197, 1,
      123566, 123566, 1, 123628, 123631, 1, 125136, 125142, 1,
      125252, 125259, 1, 127995, 127999, 1, 917505, 917505, 1,
      917536, 917631, 1, 917760, 917999, 1
    >>

\* str.isupper() of one character
IsUpper(c) ==
    \/ UpperAZ(c)
    \/ IsCodeName(c) /\ InRanges(Ord(c), UppercaseRanges, 3)

UpperLetters ==
    <<"A","B","C","D","E","F","G","H","I","J","K","L","M","N","O","P","Q","R","S","T","U",
       "V","W","X","Y","Z">>

LowerLetters ==
    <<"a","b","c","d","e","f","g","h","i","j","k","l","m","n","o","p","q","r","s","t","u",
       "v","w","x","y","z">>

\* the lowercase letter of the uppercase letter c of A .. Z
LowerOf(c) == LowerLetters[CHOOSE k \in 1..26 : UpperLetters[k] = c]

\* what str.lower() adds to code point n
LowerShift(n) ==
    IF InRanges(n, LowercaseShifts, 4)
    THEN LowercaseShifts[3 + CHOOSE at \in 1..Len(LowercaseShifts) :
                                /\ at % 4 = 1
                                /\ InRun(n, LowercaseShifts, at)]
    ELSE 0

\* str.lower() of the one character c: a str of one character, or of two for
\* U+0130
LowerChar(c) ==
    IF UpperAZ(c) THEN <<LowerOf(c)>>
    ELSE IF ~IsCodeName(c) THEN <<c>>
    ELSE IF c = "U+0130" THEN <<"i", "U+0307">>
    ELSE <<Chr(Ord(c) + LowerShift(Ord(c)))>>

\* whether c is cased and not case-ignorable
Cased(c) == InRanges(Ord(c), CasedRanges, 3)

CaseIgnorable(c) == InRanges(Ord(c), CaseIgnorableRanges, 3)

\* whether the capital sigma at s[i] ends a word: a cased character stands
\* before it and none after it, case-ignorable characters apart
FinalSigma(s, i) ==
    /\ \E j \in 1..(i - 1) :
          /\ Cased(s[j])
          /\ \A k \in (j + 1)..(i - 1) : CaseIgnorable(s[k])
    /\ ~\E j \in (i + 1)..Len(s) :
          /\ Cased(s[j])
          /\ \A k \in (i + 1)..(j - 1) : CaseIgnorable(s[k])

\* what the character at s[i] becomes in s.lower()
LowerAt(s, i) ==
    IF s[i] = "U+03A3"
    THEN <<IF FinalSigma(s, i) THEN "U+03C2" ELSE "U+03C3">>
    ELSE LowerChar(s[i])

RECURSIVE Flatten(_)
\* the strs of parts joined
Flatten(parts) ==
    IF parts = <<>> THEN <<>> ELSE Head(parts) \o Flatten(Tail(parts))

\* the decimal digits, by value
DigitChars ==
    <<"0","1","2","3","4","5","6","7","8","9">>

\* str.lower()
Lower(s) == Flatten([i \in 1..Len(s) |-> LowerAt(s, i)])

\* what re.IGNORECASE compares in place of c, for the classes and the
\* literals of the patterns (all of them ASCII)
FoldCase(c) ==
    IF UpperAZ(c) THEN LowerOf(c)
    ELSE CASE c \in {"U+0130", "U+0131"} -> "i"
           [] c = "U+017F" -> "s"
           [] c = "U+212A" -> "k"
           [] OTHER -> c

\* s[a-1:b-1] of Python, with 1-based a and exclusive b
Slice(s, a, b) == IF b <= a THEN <<>> ELSE SubSeq(s, a, b - 1)

\* str.startswith(prefix)
StartsWith(s, prefix) ==
    /\ Len(prefix) <= Len(s)
    /\ \A i \in 1..Len(prefix) : s[i] = prefix[i]

\* str.endswith(suffix)
EndsWith(s, suffix) ==
    /\ Len(suffix) <= Len(s)
    /\ \A i \in 1..Len(suffix) : s[Len(s) - Len(suffix) + i] = suffix[i]

\* whether literal lit stands in s at position p; with ic, ignoring case
LitAt(s, p, lit, ic) ==
    /\ p >= 1
    /\ p + Len(lit) - 1 <= Len(s)
    /\ \A i \in 1..Len(lit) :
          \/ s[p + i - 1] = lit[i]
          \/ ic /\ FoldCase(s[p + i - 1]) = FoldCase(lit[i])

\* the position after the longest run of whitespace that starts at p
SkipSpaces(s, p) ==
    IF p > Len(s) THEN p
    ELSE CHOOSE q \in p..(Len(s) + 1) :
            /\ q > Len(s) \/ ~IsSpace(s[q])
            /\ \A j \in p..(q - 1) : IsSpace(s[j])

\* the last position of s[1..q] that is not trailing whitespace
SkipSpacesBack(s, q) ==
    IF q < 1 THEN q
    ELSE CHOOSE r \in 0..q :
            /\ r = 0 \/ ~IsSpace(s[r])
            /\ \A j \in (r + 1)..q : IsSpace(s[j])

\* str.strip()
Strip(s) ==
    LET a == SkipSpaces(s, 1)
        b == SkipSpacesBack(s, Len(s))
    IN  Slice(s, a, b + 1)

(***************************************************************************)
(* The regular expressions of the fallback extractors.                     *)
(*                                                                         *)
(* NAME is [A-Z][a-z]+(?:\s+[A-Z][a-z]+)*.  Under re.IGNORECASE both       *)
(* classes match any letter.  Every element that follows a word in the     *)
(* patterns starts with whitespace or a colon, so only the longest run of  *)
(* a word can lead to a match; what backtracks is the number of words.     *)
(***************************************************************************)
\* [A-Z] of NAME
NameFirst(c, ic) ==
    IF ic THEN LowerAZ(FoldCase(c)) ELSE UpperAZ(c)

\* [a-z] of NAME
NameRest(c, ic) ==
    IF ic THEN LowerAZ(FoldCase(c)) ELSE LowerAZ(c)

\* the position after the longest run of [a-z] that starts at p
RunEnd(s, p, ic) ==
    IF p > Len(s) THEN p
    ELSE CHOOSE q \in p..(Len(s) + 1) :
            /\ q > Len(s) \/ ~NameRest(s[q], ic)
            /\ \A j \in p..(q - 1) : NameRest(s[j], ic)

\* [A-Z][a-z]* in place of [A-Z][a-z]+
WordOfOneLetter(s, p, ic) ==
    IF p <= Len(s) /\ NameFirst(s[p], ic) THEN RunEnd(s, p + 1, ic) ELSE 0

\* [A-Z][a-z]+ at p: the position after it, or 0 when it does not match
WordEnd(s, p, ic) ==
    IF /\ p + 1 <= Len(s)
       /\ NameFirst(s[p], ic)
       /\ NameRest(s[p + 1], ic)
    THEN RunEnd(s, p + 2, ic)
    ELSE 0

RECURSIVE MoreWords(_, _, _, _)
\* the ends of NAME after a word ending at e, the longest first; acc holds
\* the shorter ends found so far (again the longest first)
MoreWords(s, e, ic, acc) ==
    LET sp == SkipSpaces(s, e)
        w  == IF sp > e THEN WordEnd(s, sp, ic) ELSE 0
    IN  IF w = 0 THEN acc ELSE MoreWords(s, w, ic, <<w>> \o acc)

\* the positions after NAME matched at p, in the order the matcher tries them
NameEnds(s, p, ic) ==
    LET e == WordEnd(s, p, ic)
    IN  IF e = 0 THEN <<>> ELSE MoreWords(s, e, ic, <<e>>)

\* a match: found, where it starts (set by the search), the position after
\* it, and its groups
NoMatch == [found |-> FALSE, start |-> 0, end |-> 0, g1 |-> <<>>, g2 |-> <<>>]

Match(e, a, b) ==
    [found |-> TRUE, start |-> 0, end |-> e, g1 |-> a, g2 |-> b]

\* the reporting verbs of the second participant pattern (case-sensitive)
ReportingVerbs ==
    << <<"s","a","i","d">>, <<"m","e","n","t","i","o","n","e","d">>, <<"n","o","t","e","d">>, <<"s","t","a","t","e","d">> >>

\* (?:will|should|needs to|must)
Modals ==
    << <<"w","i","l","l">>, <<"s","h","o","u","l","d">>, <<"n","e","e","d","s"," ","t","o">>, <<"m","u","s","t">> >>

\* (?:agreed to|committed to)
Commitments ==
    << <<"a","g","r","e","e","d"," ","t","o">>, <<"c","o","m","m","i","t","t","e","d"," ","t","o">> >>

ActionItemPrefix ==
    <<"A","c","t","i","o","n"," ","i","t","e","m">>

RECURSIVE LitAmong(_, _, _, _, _)
\* an alternation of literals at p: the length of the first alternative that
\* matches, or 0
LitAmong(s, p, lits, ic, k) ==
    IF k > Len(lits) THEN 0
    ELSE IF LitAt(s, p, lits[k], ic) THEN Len(lits[k])
    ELSE LitAmong(s, p, lits, ic, k + 1)

\* \s+(.+?): the whitespace run ends before w and gives characters back down
\* to m + 1; the task starts at the first position tried (the last one in
\* the text) where . matches (any character but a newline), or 0
TaskStart(s, m, w) ==
    IF \E x \in (m + 1)..w : x <= Len(s) /\ s[x] # "\n"
    THEN CHOOSE x \in (m + 1)..w :
            /\ x <= Len(s) /\ s[x] # "\n"
            /\ \A y \in (x + 1)..w : y > Len(s) \/ s[y] = "\n"
    ELSE 0

\* (.+?)(?=\.|\n|$): the first position q where a period, a newline or the
\* end of the input follows
TaskEnd(s, q) ==
    IF q > Len(s) THEN q
    ELSE CHOOSE e \in q..(Len(s) + 1) :
            /\ e > Len(s) \/ s[e] \in {".", "\n"}
            /\ \A j \in q..(e - 1) : s[j] \notin {".", "\n"}

\* VERB\s+(.+?)(?=\.|\n|$) after a NAME s[p..e-1] and whitespace: the verb
\* stands at sp, the whitespace after it starts at m, the task is s[t..q-1]
VerbAndTask(s, p, e, verbs) ==
    LET Found(t, q) == Match(q, Slice(s, p, e), Slice(s, t, q))
        AtTask(t) == IF t > 0 THEN Found(t, TaskEnd(s, t + 1)) ELSE NoMatch
        AfterVerb(m) == AtTask(TaskStart(s, m, SkipSpaces(s, m)))
        AtVerb(sp, n) == IF n > 0 THEN AfterVerb(sp + n) ELSE NoMatch
        AfterName(sp) ==
            AtVerb(sp, IF sp > e THEN LitAmong(s, sp, verbs, TRUE, 1) ELSE 0)
    IN  AfterName(SkipSpaces(s, e))

\* what follows NAME s[p..e-1] in the pattern of the given kind
Continuation(s, p, e, kind) ==
    CASE kind = "colon" ->
            IF e <= Len(s) /\ s[e] = ":"
            THEN Match(e + 1, Slice(s, p, e), <<>>) ELSE NoMatch
      [] kind = "said" ->
            LET sp == SkipSpaces(s, e)
                n  == IF sp > e THEN LitAmong(s, sp, ReportingVerbs, FALSE, 1)
                      ELSE 0
            IN  IF n > 0 THEN Match(sp + n, Slice(s, p, e), <<>>) ELSE NoMatch
      [] OTHER ->
            VerbAndTask(s, p, e,
                        IF kind = "modal" THEN Modals ELSE Commitments)

\* the first of the matches ms, or no match
FirstMatch(ms) == IF ms = <<>> THEN NoMatch ELSE Head(ms)

\* backtracking over the ends of NAME: the first end whose continuation
\* matches
TryEnds(s, p, ends, kind) ==
    FirstMatch(SelectSeq([k \in 1..Len(ends) |->
                             Continuation(s, p, ends[k], kind)],
                         LAMBDA m : m.found))

\* NAME and its continuation, matched at p (p = 0: nowhere to match)
NameAt(s, p, kind) ==
    IF p = 0 THEN NoMatch
    ELSE TryEnds(s, p, NameEnds(s, p, kind \notin {"colon", "said"}), kind)

\* [^:]*: from p: the position of the first colon at or after p, or 0
FirstColon(s, p) ==
    IF \E c \in p..Len(s) : s[c] = ":"
    THEN CHOOSE c \in p..Len(s) :
            /\ s[c] = ":"
            /\ \A j \in p..(c - 1) : s[j] # ":"
    ELSE 0

\* \s* after the colon at c (c = 0: no colon)
AfterColon(s, c) == IF c = 0 THEN 0 ELSE SkipSpaces(s, c + 1)

\* Action item[^:]*:\s* at p: the position where NAME is tried, or 0
ActionItemLead(s, p) ==
    IF LitAt(s, p, ActionItemPrefix, TRUE)
    THEN AfterColon(s, FirstColon(s, p + Len(ActionItemPrefix)))
    ELSE 0

\* one pattern matched at position p.  The kinds are: "colon" and "said",
\* the participant patterns; "modal", "action_item" and "commit", the
\* action-item patterns (compiled with re.IGNORECASE)
MatchAt(s, p, kind) ==
    NameAt(s,
           IF kind = "action_item" THEN ActionItemLead(s, p) ELSE p,
           IF kind = "action_item" THEN "modal" ELSE kind)

\* the pattern matched at every position of s where it matches, from left to
\* right
MatchesIn(s, kind) ==
    SelectSeq([p \in 1..Len(s) |-> [MatchAt(s, p, kind) EXCEPT !.start = p]],
              LAMBDA m : m.found)

RECURSIVE NonOverlapping(_, _)
\* the matches of ms that the search meets: each search starts at pos, where
\* the match before it ended, and takes the leftmost match from there on
NonOverlapping(ms, pos) ==
    IF ms = <<>> THEN <<>>
    ELSE IF Head(ms).start < pos THEN NonOverlapping(Tail(ms), pos)
    ELSE <<Head(ms)>> \o NonOverlapping(Tail(ms), Head(ms).end)

\* re.findall: the matches from left to right, each search starting where
\* the match before it ended
FindAll(s, pos, kind) == NonOverlapping(MatchesIn(s, kind), pos)

(***************************************************************************)
(* Python values.  Every value is a record of one shape, so that any two   *)
(* values can be compared: t is the type, s the text of a str or the       *)
(* literal of a number, items the elements of a list or the values of a    *)
(* dict, keys the keys of a dict (in insertion order).                     *)
(***************************************************************************)
PyNone == [t |-> "none", s |-> <<>>, items |-> <<>>, keys |-> <<>>]

PyBool(b) ==
    [t |-> IF b THEN "true" ELSE "false", s |-> <<>>, items |-> <<>>,
     keys |-> <<>>]

PyNum(lit) == [t |-> "num", s |-> lit, items |-> <<>>, keys |-> <<>>]

PyStr(s) == [t |-> "str", s |-> s, items |-> <<>>, keys |-> <<>>]

PyList(items) == [t |-> "list", s |-> <<>>, items |-> items, keys |-> <<>>]

PyDict(keys, items) ==
    [t |-> "dict", s |-> <<>>, items |-> items, keys |-> keys]

\* the index of key k in dict d, or 0
KeyIndex(d, k) ==
    IF \E i \in 1..Len(d.keys) : d.keys[i] = k
    THEN CHOOSE i \in 1..Len(d.keys) : d.keys[i] = k
    ELSE 0

\* k in d
DictHas(d, k) == KeyIndex(d, k) # 0

\* d[k]
DictGet(d, k) == d.items[KeyIndex(d, k)]

\* d[k] = v: a present key keeps its place, a new key is added last
DictSet(d, k, v) ==
    IF DictHas(d, k)
    THEN PyDict(d.keys, [d.items EXCEPT ![KeyIndex(d, k)] = v])
    ELSE PyDict(Append(d.keys, k), Append(d.items, v))

\* list(dict.fromkeys(xs)): the first occurrence of each entry, in order
Dedup(xs) ==
    LET firsts == SelectSeq([i \in 1..Len(xs) |-> <<i, xs[i]>>],
                            LAMBDA e : \A j \in 1..(e[1] - 1) : xs[j] # e[2])
    IN  [k \in 1..Len(firsts) |-> firsts[k][2]]

\* the value of decimal digit c
DigitVal(c) == (CHOOSE k \in 1..10 : DigitChars[k] = c) - 1

RECURSIVE DecimalNumber(_, _)
\* the number the first n digits of ds denote
DecimalNumber(ds, n) ==
    IF n = 0 THEN 0 ELSE 10 * DecimalNumber(ds, n - 1) + DigitVal(ds[n])

\* the first position of xs that holds one of the elements of cs, or
\* Len(xs) + 1
FirstOf(xs, cs) ==
    CHOOSE i \in 1..(Len(xs) + 1) :
        /\ i > Len(xs) \/ xs[i] \in cs
        /\ \A j \in 1..(i - 1) : xs[j] \notin cs

\* the digits among xs
DigitsOf(xs) == SelectSeq(xs, LAMBDA c : IsDigit(c))

\* whether the literal of a number is the literal of a float: it has a
\* fraction or an exponent, or is NaN, Infinity or -Infinity
IsFloatLit(lit) == \E i \in 1..Len(lit) : ~IsDigit(lit[i]) /\ lit[i] # "-"

\* the exponent of the literal whose exponent mark stands at position e
\* (Len(lit) + 1: no exponent).  No literal the model reads is a million
\* characters long, so an exponent of more than six digits counts as a
\* million.
ExponentOf(lit, e) ==
    LET ds == DigitsOf(SubSeq(lit, e + 1, Len(lit)))
        z  == FirstOf(ds, {"1", "2", "3", "4", "5", "6", "7", "8", "9"})
        sg == SubSeq(ds, z, Len(ds))
        m  == IF Len(sg) > 6 THEN 1000000 ELSE DecimalNumber(sg, Len(sg))
    IN  IF e > Len(lit) THEN 0
        ELSE IF lit[e + 1] = "-" THEN 0 - m ELSE m

\* the decimal digits of 2^-1075, which is 0.247... x 10^-323: half of the
\* smallest positive float.  A literal of this value or less is read as 0.0,
\* a literal above it as a float that is not zero.
HalfOfSmallest ==
    <<"2","4","7","0","3","2","8","2","2","9","2","0","6","2","3","2","7","2","0","8","8",
       "2","8","4","3","9","6","4","3","4","1","1","0","6","8","6","1","8","2","5","2","9",
       "9","0","1","3","0","7","1","6","2","3","8","2","2","1","2","7","9","2","8","4","1",
       "2","5","0","3","3","7","7","5","3","6","3","5","1","0","4","3","7","5","9","3","2",
       "6","4","9","9","1","8","1","8","0","8","1","7","9","9","6","1","8","9","8","9","8",
       "2","8","2","3","4","7","7","2","2","8","5","8","8","6","5","4","6","3","3","2","8",
       "3","5","5","1","7","7","9","6","9","8","9","8","1","9","9","3","8","7","3","9","8",
       "0","0","5","3","9","0","9","3","9","0","6","3","1","5","0","3","5","6","5","9","5",
       "1","5","5","7","0","2","2","6","3","9","2","2","9","0","8","5","8","3","9","2","4",
       "4","9","1","0","5","1","8","4","4","3","5","9","3","1","8","0","2","8","4","9","9",
       "3","6","5","3","6","1","5","2","5","0","0","3","1","9","3","7","0","4","5","7","6",
       "7","8","2","4","9","2","1","9","3","6","5","6","2","3","6","6","9","8","6","3","6",
       "5","8","4","8","0","7","5","7","0","0","1","5","8","5","7","6","9","2","6","9","9",
       "0","3","7","0","6","3","1","1","9","2","8","2","7","9","5","5","8","5","5","1","3",
       "3","2","9","2","7","8","3","4","3","3","8","4","0","9","3","5","1","9","7","8","0",
       "1","5","5","3","1","2","4","6","5","9","7","2","6","3","5","7","9","5","7","4","6",
       "2","2","7","6","6","4","6","5","2","7","2","8","2","7","2","2","0","0","5","6","3",
       "7","4","0","0","6","4","8","5","4","9","9","9","7","7","0","9","6","5","9","9","4",
       "7","0","4","5","4","0","2","0","8","2","8","1","6","6","2","2","6","2","3","7","8",
       "5","7","3","9","3","4","5","0","7","3","6","3","3","9","0","0","7","9","6","7","7",
       "6","1","9","3","0","5","7","7","5","0","6","7","4","0","1","7","6","3","2","4","6",
       "7","3","6","0","0","9","6","8","9","5","1","3","4","0","5","3","5","5","3","7","4",
       "5","8","5","1","6","6","6","1","1","3","4","2","2","3","7","6","6","6","7","8","6",
       "0","4","1","6","2","1","5","9","6","8","0","4","6","1","9","1","4","4","6","7","2",
       "9","1","8","4","0","3","0","0","5","3","0","0","5","7","5","3","0","8","4","9","0",
       "4","8","7","6","5","3","9","1","7","1","1","3","8","6","5","9","1","6","4","6","2",
       "3","9","5","2","4","9","1","2","6","2","3","6","5","3","8","8","1","8","7","9","6",
       "3","6","2","3","9","3","7","3","2","8","0","4","2","3","8","9","1","0","1","8","6",
       "7","2","3","4","8","4","9","7","6","6","8","2","3","5","0","8","9","8","6","3","3",
       "8","8","5","8","7","9","2","5","6","2","8","3","0","2","7","5","5","9","9","5","6",
       "5","7","5","2","4","4","5","5","5","0","7","2","5","5","1","8","9","3","1","3","6",
       "9","0","8","3","6","2","5","4","7","7","9","1","8","6","9","4","8","6","6","7","9",
       "9","4","9","6","8","3","2","4","0","4","9","7","0","5","8","2","1","0","2","8","5",
       "1","3","1","8","5","4","5","1","3","9","6","2","1","3","8","3","7","7","2","2","8",
       "2","6","1","4","5","4","3","7","6","9","3","4","1","2","5","3","2","0","9","8","5",
       "9","1","3","2","7","6","6","7","2","3","6","3","2","8","1","2","5">>

\* the k-th digit of ds, continued with zeros
DigitAt(ds, k) == IF k <= Len(ds) THEN DigitVal(ds[k]) ELSE 0

\* whether 0.ds is at most 0.HalfOfSmallest
AtMostHalfOfSmallest(ds) ==
    ~\E k \in 1..(Len(ds) + Len(HalfOfSmallest)) :
        /\ DigitAt(ds, k) > DigitAt(HalfOfSmallest, k)
        /\ \A j \in 1..(k - 1) : DigitAt(ds, j) = DigitAt(HalfOfSmallest, j)

\* whether the digits ds, the first of which is not 0, read as 0.ds x 10^e10
\* make a float that is zero
Underflows(ds, e10) ==
    \/ e10 < -323
    \/ e10 = -323 /\ AtMostHalfOfSmallest(ds)

\* whether the number with the literal is zero: 0, 0.0, -0e5, and the floats
\* too small to be told from zero, such as 1e-400
IsZeroLit(lit) ==
    LET e  == FirstOf(lit, {"e", "E"})
        pt == FirstOf(SubSeq(lit, 1, e - 1), {"."})
        ds == DigitsOf(SubSeq(lit, 1, e - 1))
        f  == FirstOf(ds, {"1", "2", "3", "4", "5", "6", "7", "8", "9"})
    IN  /\ Len(ds) > 0
        /\ \/ f > Len(ds)
           \/ Underflows(SubSeq(ds, f, Len(ds)),
                         Len(DigitsOf(SubSeq(lit, 1, pt - 1))) - f + 1
                         + ExponentOf(lit, e))

\* bool(v): the truth value the if statements of the code test
Truthy(v) ==
    CASE v.t = "none"  -> FALSE
      [] v.t = "false" -> FALSE
      [] v.t = "true"  -> TRUE
      [] v.t = "num"   -> ~IsZeroLit(v.s)
      [] v.t = "str"   -> Len(v.s) > 0
      [] v.t = "list"  -> Len(v.items) > 0
      [] OTHER         -> Len(v.keys) > 0

(***************************************************************************)
(* The outcome of a call: exc is "" and val the value returned, or exc     *)
(* names the exception raised and msg is its str()                         *)
(***************************************************************************)
Returns(v) == [exc |-> "", msg |-> <<>>, val |-> v]

Raises(e, msg) == [exc |-> e, msg |-> msg, val |-> PyNone]

(***************************************************************************)
(* json.loads.  What the scanner reads at a position is [ok, v, next, exc, *)
(* msg]: a value and the position after it, or the exception raised.       *)
(***************************************************************************)
Parsed(v, n) == [ok |-> TRUE, v |-> v, next |-> n, exc |-> "", msg |-> <<>>]

RECURSIVE Decimal(_)
\* str(n) of a natural number
Decimal(n) ==
    IF n < 10 THEN <<DigitChars[n + 1]>>
    ELSE Decimal(n \div 10) \o <<DigitChars[(n % 10) + 1]>>

\* the position of the last newline before position p, or 0
LastNewline(s, p) ==
    CHOOSE r \in 0..(p - 1) :
        /\ r = 0 \/ s[r] = "\n"
        /\ \A j \in (r + 1)..(p - 1) : s[j] # "\n"

\* the line of position p
LineOf(s, p) == Cardinality({j \in 1..(p - 1) : s[j] = "\n"}) + 1

\* JSONDecodeError(msg, s, p - 1): the error at position p of document s
DecodeError(s, msg, p) ==
    [ok |-> FALSE, v |-> PyNone, next |-> p, exc |-> "JSONDecodeError",
     msg |-> msg \o <<":"," ","l","i","n","e"," ">> \o Decimal(LineOf(s, p))
             \o <<" ","c","o","l","u","m","n"," ">> \o Decimal(p - LastNewline(s, p))
             \o <<" ","(","c","h","a","r"," ">> \o Decimal(p - 1) \o <<")">>]

\* the ValueError of int() on a literal of n digits, n above the limit of
\* the interpreter
IntTooLong(n) ==
    [ok |-> FALSE, v |-> PyNone, next |-> 0, exc |-> "ValueError",
     msg |-> <<"E","x","c","e","e","d","s"," ","t","h","e"," ","l","i","m","i","t"," ","(","4","3",
       "0","0"," ","d","i","g","i","t","s",")"," ","f","o","r"," ","i","n","t","e","g","e",
       "r"," ","s","t","r","i","n","g"," ","c","o","n","v","e","r","s","i","o","n",":"," ",
       "v","a","l","u","e"," ","h","a","s"," ">>
             \o Decimal(n)
             \o <<" ","d","i","g","i","t","s",";"," ","u","s","e"," ","s","y","s",".","s","e","t","_",
       "i","n","t","_","m","a","x","_","s","t","r","_","d","i","g","i","t","s","(",")"," ",
       "t","o"," ","i","n","c","r","e","a","s","e"," ","t","h","e"," ","l","i","m","i","t">>]

CharAt(s, p) == IF p >= 1 /\ p <= Len(s) THEN s[p] ELSE "EOF"

\* the whitespace of JSON
IsJsonSpace(c) == c \in {" ", "\t", "\n", "\r"}

\* the position after the longest run of JSON whitespace that starts at p
SkipWhitespace(s, p) ==
    IF p > Len(s) THEN p
    ELSE CHOOSE q \in p..(Len(s) + 1) :
            /\ q > Len(s) \/ ~IsJsonSpace(s[q])
            /\ \A j \in p..(q - 1) : IsJsonSpace(s[j])

\* the position after the longest run of digits that starts at p
DigitsEnd(s, p) ==
    IF p > Len(s) THEN p
    ELSE CHOOSE q \in p..(Len(s) + 1) :
            /\ q > Len(s) \/ ~IsDigit(s[q])
            /\ \A j \in p..(q - 1) : IsDigit(s[j])

\* -?(?:0|[1-9]\d*) with the digits expected at i: the position after the
\* integer part, or 0
IntDigits(s, i) ==
    IF CharAt(s, i) = "0" THEN i + 1
    ELSE IF IsDigit(CharAt(s, i)) THEN DigitsEnd(s, i)
    ELSE 0

\* (\.\d+)? at j
FracEnd(s, j) ==
    IF CharAt(s, j) = "." /\ IsDigit(CharAt(s, j + 1))
    THEN DigitsEnd(s, j + 1) ELSE j

\* the digits of ([eE][-+]?\d+)? expected at l, the exponent mark being at k
ExpDigits(s, k, l) == IF IsDigit(CharAt(s, l)) THEN DigitsEnd(s, l) ELSE k

\* ([eE][-+]?\d+)? at k
ExpEnd(s, k) ==
    IF CharAt(s, k) \in {"e", "E"}
    THEN ExpDigits(s, k, IF CharAt(s, k + 1) \in {"+", "-"} THEN k + 2
                         ELSE k + 1)
    ELSE k

\* the number with literal lit, read up to position m: float(lit), or
\* int(lit), which raises on more than 4300 digits
NumberOf(lit, m) ==
    IF ~IsFloatLit(lit) /\ Len(DigitsOf(lit)) > 4300
    THEN IntTooLong(Len(DigitsOf(lit)))
    ELSE Parsed(PyNum(lit), m)

\* the number s[p..m-1]
NumberTo(s, p, m) == NumberOf(Slice(s, p, m), m)

\* the number at p whose integer part ends before j (j = 0: no number)
NumberFrom(s, p, j) ==
    IF j = 0 THEN DecodeError(s, <<"E","x","p","e","c","t","i","n","g"," ","v","a","l","u","e">>, p)
    ELSE NumberTo(s, p, ExpEnd(s, FracEnd(s, j)))

\* NUMBER_RE: (-?(?:0|[1-9]\d*))(\.\d+)?([eE][-+]?\d+)?
ParseNumber(s, p) ==
    NumberFrom(s, p, IntDigits(s, IF CharAt(s, p) = "-" THEN p + 1 ELSE p))

\* the character the escape sequence \e stands for, or "BAD"
Unescape(e) ==
    CASE e = "\"" -> "\""
      [] e = "\\" -> "\\"
      [] e = "/"  -> "/"
      [] e = "b"  -> Chr(8)
      [] e = "f"  -> "\f"
      [] e = "n"  -> "\n"
      [] e = "r"  -> "\r"
      [] e = "t"  -> "\t"
      [] OTHER    -> "BAD"

\* whether the character at q is escaped, in a string whose text starts at
\* a: an odd number of backslashes stands right before it
Escaped(s, a, q) ==
    LET r == CHOOSE r \in (a - 1)..(q - 1) :
                /\ r = a - 1 \/ s[r] # "\\"
                /\ \A j \in (r + 1)..(q - 1) : s[j] = "\\"
    IN  (q - 1 - r) % 2 = 1

\* the position of the quote that closes the string whose text starts at a,
\* or Len(s) + 1
ClosingQuote(s, a) ==
    CHOOSE q \in a..(Len(s) + 1) :
        /\ q > Len(s) \/ (s[q] = "\"" /\ ~Escaped(s, a, q))
        /\ \A j \in a..(q - 1) : s[j] # "\"" \/ Escaped(s, a, j)

\* the code unit of the four hexadecimal digits s[h..h+3] of a \u escape,
\* or -1 when they are not four digits with a character after them
Hex4(s, h) ==
    IF h + 4 <= Len(s) /\ \A k \in 0..3 : HexVal(s[h + k]) >= 0
    THEN 4096 * HexVal(s[h]) + 256 * HexVal(s[h + 1])
         + 16 * HexVal(s[h + 2]) + HexVal(s[h + 3])
    ELSE -1

\* the first and the second code unit of a surrogate pair
IsHighSurrogate(c) == c >= 55296 /\ c <= 56319

IsLowSurrogate(c) == c >= 56320 /\ c <= 57343

\* the code unit of the \u escape that ends right before the escape whose u
\* stands at i, or -1
EscapeBefore(s, a, i) ==
    IF i - 6 >= a /\ s[i - 6] = "u" /\ Escaped(s, a, i - 6)
    THEN Hex4(s, i - 5) ELSE -1

\* the code unit of the \u escape that starts right after the escape whose
\* u stands at i, or -1
EscapeAfter(s, i) ==
    IF i + 6 <= Len(s) /\ s[i + 5] = "\\" /\ s[i + 6] = "u"
    THEN Hex4(s, i + 7) ELSE -1

\* what the escape \uXXXX whose u stands at i contributes: its character;
\* the character of the pair, for the first half of a surrogate pair;
\* nothing, for the second half; "BADU" when it is malformed
UnicodeEscape(s, a, i) ==
    LET c == Hex4(s, i + 1)
    IN  IF c < 0 THEN "BADU"
        ELSE IF IsLowSurrogate(c) /\ IsHighSurrogate(EscapeBefore(s, a, i))
             THEN "SKIP"
        ELSE IF IsHighSurrogate(c) /\ IsLowSurrogate(EscapeAfter(s, i))
             THEN Chr(65536 + (c - 55296) * 1024 + (EscapeAfter(s, i) - 56320))
        ELSE Chr(c)

\* whether position i holds one of the four digits of a \u escape
InEscapeDigits(s, a, i) ==
    \E k \in 1..4 : i - k >= a /\ s[i - k] = "u" /\ Escaped(s, a, i - k)

\* a character strict mode rejects inside a string: U+0000 .. U+001F
IsControl(c) ==
    \/ c \in {"\t", "\n", "\f", "\r"}
    \/ IsCodeName(c) /\ Ord(c) < 32

\* what position i of the string contributes to its text: a character,
\* "SKIP" for nothing, or "BAD", "BADU", "CTRL" for what is rejected
StringChar(s, a, i) ==
    IF Escaped(s, a, i)
    THEN IF s[i] = "u" THEN UnicodeEscape(s, a, i) ELSE Unescape(s[i])
    ELSE IF s[i] = "\\" \/ InEscapeDigits(s, a, i) THEN "SKIP"
    ELSE IF IsControl(s[i]) THEN "CTRL"
    ELSE s[i]

\* the error of the first rejected position i of a string
StringError(s, kind, i) ==
    CASE kind = "BAD"  -> DecodeError(s, <<"I","n","v","a","l","i","d"," ","\\","e","s","c","a","p","e">>, i - 1)
      [] kind = "BADU" -> DecodeError(s, <<"I","n","v","a","l","i","d"," ","\\","u","X","X","X","X"," ","e","s","c","a","p","e">>, i)
      [] OTHER -> DecodeError(s, <<"I","n","v","a","l","i","d"," ","c","o","n","t","r","o","l"," ","c","h","a","r","a",
       "c","t","e","r"," ","a","t">>, i)

\* the string whose text s[a..e-1] contributes cs
StringOf(s, a, e, cs) ==
    IF FirstOf(cs, {"BAD", "BADU", "CTRL"}) <= Len(cs)
    THEN StringError(s, cs[FirstOf(cs, {"BAD", "BADU", "CTRL"})],
                     a + FirstOf(cs, {"BAD", "BADU", "CTRL"}) - 1)
    ELSE IF e > Len(s)
    THEN DecodeError(s, <<"U","n","t","e","r","m","i","n","a","t","e","d"," ","s","t","r","i","n","g"," ","s",
       "t","a","r","t","i","n","g"," ","a","t">>, a - 1)
    ELSE Parsed(PyStr(SelectSeq(cs, LAMBDA c : c # "SKIP")), e + 1)

\* the string whose text starts at a and whose closing quote is at e
StringUpTo(s, a, e) ==
    StringOf(s, a, e, [k \in 1..(e - a) |-> StringChar(s, a, a + k - 1)])

\* scanstring (strict): the string whose opening quote precedes a
ScanString(s, a) == StringUpTo(s, a, ClosingQuote(s, a))

\* the value of the last of the pairs with the key
LastValue(pairs, key) ==
    pairs[CHOOSE i \in 1..Len(pairs) :
              /\ pairs[i][1] = key
              /\ \A j \in (i + 1)..Len(pairs) : pairs[j][1] # key][2]

\* the dict with the keys, each with the value of its last pair
DictWith(pairs, keys) ==
    PyDict(keys, [i \in 1..Len(keys) |-> LastValue(pairs, keys[i])])

\* dict(pairs): a key stands at the place of its first pair and has the value
\* of its last
DictOf(pairs) == DictWith(pairs, Dedup([i \in 1..Len(pairs) |-> pairs[i][1]]))

RECURSIVE ParseValue(_, _)
RECURSIVE ArrayElement(_, _, _)
RECURSIVE ObjectMember(_, _, _)
RECURSIVE ObjectValue(_, _, _, _)

\* JSONArray: r is what was read as the next element; after it a comma
\* continues the array and the bracket ends it
ArrayElement(s, acc, r) ==
    IF ~r.ok THEN r
    ELSE IF CharAt(s, SkipWhitespace(s, r.next)) = ","
         THEN ArrayElement(s, Append(acc, r.v),
                           ParseValue(s, SkipWhitespace(s,
                                             SkipWhitespace(s, r.next) + 1)))
    ELSE IF CharAt(s, SkipWhitespace(s, r.next)) = "]"
         THEN Parsed(PyList(Append(acc, r.v)), SkipWhitespace(s, r.next) + 1)
    ELSE DecodeError(s, <<"E","x","p","e","c","t","i","n","g"," ","'",",","'"," ","d","e","l","i","m","i","t",
       "e","r">>, SkipWhitespace(s, r.next))

\* the key of a member, expected at p
ObjectKey(s, p) ==
    IF CharAt(s, p) = "\"" THEN ScanString(s, p + 1)
    ELSE DecodeError(s, <<"E","x","p","e","c","t","i","n","g"," ","p","r","o","p","e","r","t","y"," ","n","a",
       "m","e"," ","e","n","c","l","o","s","e","d"," ","i","n"," ","d","o","u","b","l","e",
       " ","q","u","o","t","e","s">>,
                     p)

\* JSONObject: r is what was read as the value of key; after it a comma
\* continues the object and the brace ends it
ObjectValue(s, pairs, key, r) ==
    IF ~r.ok THEN r
    ELSE IF CharAt(s, SkipWhitespace(s, r.next)) = ","
         THEN ObjectMember(s, Append(pairs, <<key, r.v>>),
                           ObjectKey(s, SkipWhitespace(s,
                                            SkipWhitespace(s, r.next) + 1)))
    ELSE IF CharAt(s, SkipWhitespace(s, r.next)) = "}"
         THEN Parsed(DictOf(Append(pairs, <<key, r.v>>)),
                     SkipWhitespace(s, r.next) + 1)
    ELSE DecodeError(s, <<"E","x","p","e","c","t","i","n","g"," ","'",",","'"," ","d","e","l","i","m","i","t",
       "e","r">>, SkipWhitespace(s, r.next))

\* JSONObject: k is what was read as the key of the next member; a colon
\* and the value follow
ObjectMember(s, pairs, k) ==
    IF ~k.ok THEN k
    ELSE IF CharAt(s, SkipWhitespace(s, k.next)) # ":"
         THEN DecodeError(s, <<"E","x","p","e","c","t","i","n","g"," ","'",":","'"," ","d","e","l","i","m","i","t",
       "e","r">>,
                          SkipWhitespace(s, k.next))
    ELSE ObjectValue(s, pairs, k.v.s,
                     ParseValue(s, SkipWhitespace(s,
                                       SkipWhitespace(s, k.next) + 1)))

\* a number n read at p, or one of the constants NaN, Infinity, -Infinity
NumberOrConstant(s, p, n) ==
    IF n.ok \/ n.exc # "JSONDecodeError" THEN n
    ELSE IF LitAt(s, p, <<"N","a","N">>, FALSE) THEN Parsed(PyNum(<<"N","a","N">>), p + 3)
    ELSE IF LitAt(s, p, <<"I","n","f","i","n","i","t","y">>, FALSE)
         THEN Parsed(PyNum(<<"I","n","f","i","n","i","t","y">>), p + 8)
    ELSE IF LitAt(s, p, <<"-","I","n","f","i","n","i","t","y">>, FALSE)
         THEN Parsed(PyNum(<<"-","I","n","f","i","n","i","t","y">>), p + 9)
    ELSE n

\* scan_once: one JSON value at p
ParseValue(s, p) ==
    LET c == CharAt(s, p)
    IN  CASE c = "\"" -> ScanString(s, p + 1)
          [] c = "{" ->
                LET q == SkipWhitespace(s, p + 1)
                IN  IF CharAt(s, q) = "}" THEN Parsed(PyDict(<<>>, <<>>), q + 1)
                    ELSE ObjectMember(s, <<>>, ObjectKey(s, q))
          [] c = "[" ->
                LET q == SkipWhitespace(s, p + 1)
                IN  IF CharAt(s, q) = "]" THEN Parsed(PyList(<<>>), q + 1)
                    ELSE ArrayElement(s, <<>>, ParseValue(s, q))
          [] c = "n" /\ LitAt(s, p, <<"n","u","l","l">>, FALSE) -> Parsed(PyNone, p + 4)
          [] c = "t" /\ LitAt(s, p, <<"t","r","u","e">>, FALSE) ->
                Parsed(PyBool(TRUE), p + 4)
          [] c = "f" /\ LitAt(s, p, <<"f","a","l","s","e">>, FALSE) ->
                Parsed(PyBool(FALSE), p + 5)
          [] OTHER -> NumberOrConstant(s, p, ParseNumber(s, p))

\* r is the value read at the start of s: only whitespace may follow it
WholeDocument(s, r) ==
    IF ~r.ok THEN Raises(r.exc, r.msg)
    ELSE IF SkipWhitespace(s, r.next) # Len(s) + 1
         THEN Raises("JSONDecodeError",
                     DecodeError(s, <<"E","x","t","r","a"," ","d","a","t","a">>,
                                 SkipWhitespace(s, r.next)).msg)
    ELSE Returns(r.v)

\* json.loads(s): the value, or JSONDecodeError (ValueError for an int of
\* too many digits)
JsonLoads(s) ==
    IF Len(s) > 0 /\ s[1] = "U+FEFF"
    THEN Raises("JSONDecodeError",
                DecodeError(s, <<"U","n","e","x","p","e","c","t","e","d"," ","U","T","F","-","8"," ","B","O","M"," ",
       "(","d","e","c","o","d","e"," ","u","s","i","n","g"," ","u","t","f","-","8","-","s",
       "i","g",")">>,
                            1).msg)
    ELSE WholeDocument(s, ParseValue(s, SkipWhitespace(s, 1)))

(***************************************************************************)
(* AIService: cleaning, the fallback extractors, the primary path          *)
(***************************************************************************)
\* type(v).__name__
TypeName(v) ==
    CASE v.t = "none" -> <<"N","o","n","e","T","y","p","e">>
      [] v.t \in {"true", "false"} -> <<"b","o","o","l">>
      [] v.t = "num" -> IF IsFloatLit(v.s) THEN <<"f","l","o","a","t">> ELSE <<"i","n","t">>
      [] v.t = "str" -> <<"s","t","r">>
      [] v.t = "list" -> <<"l","i","s","t">>
      [] OTHER -> <<"d","i","c","t">>

\* str() of the TypeError of a for loop over v
NotIterable(v) == <<"'">> \o TypeName(v) \o <<"'"," ","o","b","j","e","c","t"," ","i","s"," ","n","o","t"," ","i","t","e","r","a",
       "b","l","e">>

\* str() of the AttributeError of v.name
NoAttribute(v, name) ==
    <<"'">> \o TypeName(v) \o <<"'"," ","o","b","j","e","c","t"," ","h","a","s"," ","n","o"," ","a","t","t","r","i",
       "b","u","t","e"," ","'">> \o name \o <<"'">>

\* str() of the TypeError of v['key'] = ... on a value that is no dict
NoItemAssignment(v) ==
    IF v.t = "list" THEN <<"l","i","s","t"," ","i","n","d","i","c","e","s"," ","m","u","s","t"," ","b","e"," ",
       "i","n","t","e","g","e","r","s"," ","o","r"," ","s","l","i","c","e","s",","," ","n",
       "o","t"," ","s","t","r">>
    ELSE <<"'">> \o TypeName(v) \o <<"'"," ","o","b","j","e","c","t"," ","d","o","e","s"," ","n","o","t"," ","s","u","p",
       "p","o","r","t"," ","i","t","e","m"," ","a","s","s","i","g","n","m","e","n","t">>

\* junk_words of _clean_participants
JunkWords ==
    { <<"d","a","t","e">>, <<"t","i","m","e">>, <<"m","e","e","t","i","n","g">>, <<"c","a","l","l">>, <<"t","e","a","m">>, <<"g","r","o","u","p">>, <<"p","r","o","j","e","c","t">>,
      <<"n","e","e","d">>, <<"w","i","l","l">>, <<"c","a","n">>, <<"s","h","o","u","l","d">>, <<"w","o","u","l","d">>, <<"d","i","s","c","u","s","s","i","o","n">>, <<"a","g","e","n","d","a">>,
      <<"m","i","n","u","t","e","s">>, <<"a","c","t","i","o","n">>, <<"i","t","e","m">>, <<"d","e","c","i","s","i","o","n">>, <<"s","u","m","m","a","r","y">>, <<"e","v","e","r","y","o","n","e">>,
      <<"a","l","l">>, <<"w","e">>, <<"u","s">>, <<"t","h","e","y">>, <<"t","h","e","m">>, <<"i","t">>, <<"t","h","i","s">>, <<"t","h","a","t">> }

\* the prefixes of participant.lower().startswith(('http', 'www', '@'))
JunkPrefixes ==
    { <<"h","t","t","p">>, <<"w","w","w">>, <<"@">> }

\* the test without the junk_words condition
KeepWithoutJunkTest(name) ==
    /\ Len(name) >= 2
    /\ IsUpper(name[1])
    /\ \A pre \in JunkPrefixes : ~StartsWith(Lower(name), pre)

\* the test of _clean_participants on a stripped entry
KeepParticipant(name) ==
    /\ Len(name) >= 2
    /\ IsUpper(name[1])
    /\ Lower(name) \notin JunkWords
    /\ \A pre \in JunkPrefixes : ~StartsWith(Lower(name), pre)

\* what a for loop over v visits; v must be a list, a str or a dict
IterItems(v) ==
    CASE v.t = "list" -> v.items
      [] v.t = "str"  -> [i \in 1..Len(v.s) |-> PyStr(<<v.s[i]>>)]
      [] OTHER        -> [i \in 1..Len(v.keys) |-> PyStr(v.keys[i])]

\* the first of xs that is no str: participant.strip() raises on it
FirstNonStr(xs) ==
    xs[CHOOSE i \in 1..Len(xs) :
           /\ xs[i].t # "str"
           /\ \A j \in 1..(i - 1) : xs[j].t = "str"]

\* the cleaning with the duplicates removed from the entries as given,
\* before they are stripped
DedupBeforeStrip(v) ==
    IF v.t \notin {"list", "str", "dict"}
    THEN Raises("TypeError", NotIterable(v))
    ELSE LET xs == IterItems(v)
         IN  IF \E i \in 1..Len(xs) : xs[i].t # "str"
             THEN Raises("AttributeError",
                         NoAttribute(FirstNonStr(xs), <<"s","t","r","i","p">>))
             ELSE LET ys == Dedup(xs)
                      stripped == [i \in 1..Len(ys) |-> PyStr(Strip(ys[i].s))]
                  IN  Returns(PyList(SelectSeq(stripped,
                                         LAMBDA x : KeepParticipant(x.s))))

\* _clean_participants(participants)
CleanParticipants(v) ==
    IF v.t \notin {"list", "str", "dict"}
    THEN Raises("TypeError", NotIterable(v))
    ELSE LET xs == IterItems(v)
         IN  IF \E i \in 1..Len(xs) : xs[i].t # "str"
             THEN Raises("AttributeError",
                         NoAttribute(FirstNonStr(xs), <<"s","t","r","i","p">>))
             ELSE LET stripped == [i \in 1..Len(xs) |-> PyStr(Strip(xs[i].s))]
                      cleaned  == SelectSeq(stripped,
                                            LAMBDA x : KeepParticipant(x.s))
                  IN  Returns(PyList(Dedup(cleaned)))

\* the first groups of matches
Group1(ms) == [i \in 1..Len(ms) |-> ms[i].g1]

\* xs without its k-th element
Without(xs, k) == SubSeq(xs, 1, k - 1) \o SubSeq(xs, k + 1, Len(xs))

RECURSIVE SetOrder(_, _)
\* list(a set of str): the order in which a set yields its elements follows
\* from the hashes of the strings, which are salted per process, so every
\* order can come out.  The model numbers the orders by the salt: the
\* digits of seed, in the factorial number system, pick the next element
\* among those left (seed 0 is the order of first insertion).
SetOrder(xs, seed) ==
    IF Len(xs) = 0 THEN <<>>
    ELSE <<xs[(seed % Len(xs)) + 1]>>
         \o SetOrder(Without(xs, (seed % Len(xs)) + 1), seed \div Len(xs))

\* the two participant patterns, in order
ParticipantPatterns == <<"colon", "said">>

\* for pattern in patterns: participants.update(re.findall(...)): the
\* matches in the order they are added to the set
ParticipantMatches(transcript) ==
    LET found == [k \in 1..Len(ParticipantPatterns) |->
                     Group1(FindAll(transcript, 1, ParticipantPatterns[k]))]
    IN  found[1] \o found[2]

\* list(set(matches)) handed to _clean_participants
CleanMatches(asList) ==
    CleanParticipants(PyList([i \in 1..Len(asList) |-> PyStr(asList[i])])).val

\* _extract_participants_fallback(transcript)
ExtractParticipantsFallback(transcript, seed) ==
    CleanMatches(SetOrder(Dedup(ParticipantMatches(transcript)), seed))

K_task == <<"t","a","s","k">>
K_owner == <<"o","w","n","e","r">>
K_deadline == <<"d","e","a","d","l","i","n","e">>
K_status == <<"s","t","a","t","u","s">>
K_summary == <<"s","u","m","m","a","r","y">>
K_decisions == <<"d","e","c","i","s","i","o","n","s">>
K_agenda == <<"a","g","e","n","d","a">>
K_participants == <<"p","a","r","t","i","c","i","p","a","n","t","s">>
K_topics == <<"t","o","p","i","c","s">>
K_actionItems == <<"a","c","t","i","o","n","I","t","e","m","s">>
K_processed_at == <<"p","r","o","c","e","s","s","e","d","_","a","t">>
K_model_used == <<"m","o","d","e","l","_","u","s","e","d">>
K_topic == <<"t","o","p","i","c">>
K_confidence == <<"c","o","n","f","i","d","e","n","c","e">>

\* the action item built from one match
ActionItem(m) ==
    PyDict(<<K_task, K_owner, K_deadline, K_status>>,
           <<PyStr(Strip(m.g2)), PyStr(Strip(m.g1)),
             PyStr(<<"N","o","t"," ","s","p","e","c","i","f","i","e","d">>), PyStr(<<"P","e","n","d","i","n","g">>)>>)

\* action_patterns, in order
ActionPatterns == <<"modal", "action_item", "commit">>

\* the action items built from the matches of one pattern
ItemsOf(ms) == [i \in 1..Len(ms) |-> ActionItem(ms[i])]

\* _extract_action_items_fallback(transcript)
ExtractActionItemsFallback(transcript) ==
    LET found == [k \in 1..Len(ActionPatterns) |->
                     ItemsOf(FindAll(transcript, 1, ActionPatterns[k]))]
    IN  PyList(found[1] \o found[2] \o found[3])

\* datetime.utcnow().isoformat() at clock value now (whole seconds of one
\* minute)
IsoFormat(now) ==
    <<"2","0","2","5","-","0","1","-","0","1","T","0","0",":","0","0",":">>
    \o <<DigitChars[((now \div 10) % 10) + 1], DigitChars[(now % 10) + 1]>>

\* f"{self.provider}/{self.model_name}"
ModelName ==
    <<"o","p","e","n","a","i">> \o <<"/">> \o <<"g","p","t","-","4","o","-","m","i","n","i">>

FallbackModel ==
    <<"f","a","l","l","b","a","c","k","/","r","e","g","e","x">>

FallbackSummary ==
    PyList(<<PyStr(<<"M","e","e","t","i","n","g"," ","t","r","a","n","s","c","r","i","p","t"," ","p","r",
       "o","c","e","s","s","e","d"," ","w","i","t","h"," ","f","a","l","l","b","a","c","k",
       " ","m","e","t","h","o","d">>),
             PyStr(<<"A","I"," ","p","r","o","c","e","s","s","i","n","g"," ","t","e","m","p","o","r","a",
       "r","i","l","y"," ","u","n","a","v","a","i","l","a","b","l","e">>)>>)

FallbackAgenda ==
    PyList(<<PyStr(<<"G","e","n","e","r","a","l"," ","d","i","s","c","u","s","s","i","o","n">>)>>)

FallbackTopics ==
    PyList(<<PyDict(<<K_topic, K_confidence>>,
                    <<PyStr(<<"G","e","n","e","r","a","l"," ","m","e","e","t","i","n","g"," ","d","i","s","c","u",
       "s","s","i","o","n">>), PyNum(<<"0",".","7">>)>>)>>)

\* a fallback record stamped with the model of the primary path
FallbackStampedAsPrimary(transcript, now, seed) ==
    PyDict(<<K_summary, K_decisions, K_agenda, K_participants, K_topics,
             K_actionItems, K_processed_at, K_model_used>>,
           <<FallbackSummary,
             PyList(<<>>),
             FallbackAgenda,
             ExtractParticipantsFallback(transcript, seed),
             FallbackTopics,
             ExtractActionItemsFallback(transcript),
             PyStr(IsoFormat(now)),
             PyStr(ModelName)>>)

\* _fallback_process(transcript)
FallbackProcess(transcript, now, seed) ==
    PyDict(<<K_summary, K_decisions, K_agenda, K_participants, K_topics,
             K_actionItems, K_processed_at, K_model_used>>,
           <<FallbackSummary,
             PyList(<<>>),
             FallbackAgenda,
             ExtractParticipantsFallback(transcript, seed),
             FallbackTopics,
             ExtractActionItemsFallback(transcript),
             PyStr(IsoFormat(now)),
             PyStr(FallbackModel)>>)

FenceOpen ==
    <<"U+0060","U+0060","U+0060","j","s","o","n">>

FenceClose ==
    <<"U+0060","U+0060","U+0060">>

\* the text handed to json.loads: the reply stripped, without a leading
\* FenceOpen and a trailing FenceClose, stripped again
StripFence(response) ==
    LET t1 == Strip(response)
        t2 == IF StartsWith(t1, FenceOpen)
              THEN Slice(t1, Len(FenceOpen) + 1, Len(t1) + 1) ELSE t1
        t3 == IF EndsWith(t2, FenceClose)
              THEN Slice(t2, 1, Len(t2) - Len(FenceClose) + 1) ELSE t2
    IN  Strip(t3)

\* result['processed_at'] = ...; result['model_used'] = ... on what
\* json.loads returned, unless it raised.  Item assignment on a value that is
\* no dict raises TypeError.
Stamp(r, now) ==
    IF r.exc # "" THEN r
    ELSE IF r.val.t # "dict" THEN Raises("TypeError", NoItemAssignment(r.val))
    ELSE Returns(DictSet(DictSet(r.val, K_processed_at,
                                 PyStr(IsoFormat(now))),
                         K_model_used, PyStr(ModelName)))

\* _ai_process after the reply has arrived: parse it and stamp the metadata
AiProcess(response, now) == Stamp(JsonLoads(StripFence(response)), now)

\* required_fields of _validate_and_enhance
RequiredFields ==
    <<K_summary, K_decisions, K_agenda, K_participants, K_topics,
      K_actionItems>>

\* for field in required_fields: if field not in result: result[field] = []
EnsureFields(result) ==
    LET missing == SelectSeq(RequiredFields, LAMBDA f : ~DictHas(result, f))
    IN  PyDict(result.keys \o missing,
               result.items \o [i \in 1..Len(missing) |-> PyList(<<>>)])

\* the assignment of the cleaned list c, unless cleaning raised
StoreCleaned(result, c) ==
    IF c.exc # "" THEN c
    ELSE Returns(DictSet(result, K_participants, c.val))

\* if result['participants']:
\*     result['participants'] = self._clean_participants(...)
CleanStage(result) ==
    IF ~Truthy(DictGet(result, K_participants)) THEN Returns(result)
    ELSE StoreCleaned(result,
                      CleanParticipants(DictGet(result, K_participants)))

\* if not result['participants']:
\*     result['participants'] = self._extract_participants_fallback(transcript)
ParticipantsStage(result, transcript, seed) ==
    IF ~Truthy(DictGet(result, K_participants))
    THEN DictSet(result, K_participants,
                 ExtractParticipantsFallback(transcript, seed))
    ELSE result

\* the action items replaced by the fallback extraction whether or not the
\* record holds any
ReplaceActionItems(result, transcript) ==
    DictSet(result, K_actionItems, ExtractActionItemsFallback(transcript))

\* if not result['actionItems']:
\*     result['actionItems'] = self._extract_action_items_fallback(transcript)
ActionItemsStage(result, transcript) ==
    IF ~Truthy(DictGet(result, K_actionItems))
    THEN DictSet(result, K_actionItems,
                 ExtractActionItemsFallback(transcript))
    ELSE result

\* the two fallback substitutions, unless cleaning raised
FallbackStages(c, transcript, seed) ==
    IF c.exc # "" THEN c
    ELSE Returns(ActionItemsStage(ParticipantsStage(c.val, transcript, seed),
                                  transcript))

\* _validate_and_enhance(result, transcript)
ValidateAndEnhance(result, transcript, seed) ==
    FallbackStages(CleanStage(EnsureFields(result)), transcript, seed)

\* what the remote call does: it returns a text or raises
RemoteText(text) == [raised |-> "", msg |-> <<>>, text |-> text]

RemoteError(e, msg) == [raised |-> e, msg |-> msg, text |-> <<>>]

\* the built-in exception classes, and asyncio.CancelledError, that do not
\* derive from Exception
NotExceptions ==
    {"BaseException", "BaseExceptionGroup", "GeneratorExit",
     "KeyboardInterrupt", "SystemExit", "CancelledError"}

\* an except clause that names json.JSONDecodeError only
CatchesDecodeErrorsOnly(e) == e = "JSONDecodeError"

\* "except Exception" of process_transcript
CaughtByProcess(e) == e \notin NotExceptions

\* _validate_and_enhance on what _ai_process returned, unless it raised
ValidateReturned(a, transcript, seed) ==
    IF a.exc # "" THEN a ELSE ValidateAndEnhance(a.val, transcript, seed)

\* the try block of process_transcript once the remote call has ended
PrimaryPath(transcript, remote, now, seed) ==
    IF remote.raised # "" THEN Raises(remote.raised, remote.msg)
    ELSE ValidateReturned(AiProcess(remote.text, now), transcript, seed)

\* the except clause of process_transcript on the outcome r of the try block
ExceptClause(r, transcript, now, seed) ==
    IF r.exc = "" THEN r
    ELSE IF CaughtByProcess(r.exc)
         THEN Returns(FallbackProcess(transcript, now, seed))
         ELSE r

\* process_transcript(transcript), given what the remote call did
ProcessTranscript(transcript, remote, now, seed) ==
    ExceptClause(PrimaryPath(transcript, remote, now, seed), transcript, now,
                 seed)

\* self.chat_client.send_message is awaited once per run of _ai_process; the
\* except clause of process_transcript starts the fallback and never sends
\* again.  Whether a failed primary path is followed by another call:
RetryOnce(r, calls) == calls < 2

RetryAfterFailure(r, calls) == FALSE

\* "except Exception" of ai_minutes
CaughtByRoute(e) == e \notin NotExceptions

\* bool(self.api_key) of health_check, "not self.api_key" of __init__ negated
HasKey(key) == key.set /\ Len(key.val) > 0

K_status_h == <<"s","t","a","t","u","s">>
K_model == <<"m","o","d","e","l">>
K_has_api_key == <<"h","a","s","_","a","p","i","_","k","e","y">>
K_timestamp == <<"t","i","m","e","s","t","a","m","p">>
K_error == <<"e","r","r","o","r">>
K_detail == <<"d","e","t","a","i","l">>
K_transcript == <<"t","r","a","n","s","c","r","i","p","t">>

\* a health check that reports "healthy" without looking at the key
HealthCheckAlwaysHealthy(api_key, now) ==
    PyDict(<<K_status_h, K_model, K_has_api_key, K_timestamp>>,
           <<PyStr(<<"h","e","a","l","t","h","y">>),
             PyStr(ModelName),
             PyBool(HasKey(api_key)),
             PyStr(IsoFormat(now))>>)

\* AIService.health_check()
HealthCheckBody(api_key, now) ==
    PyDict(<<K_status_h, K_model, K_has_api_key, K_timestamp>>,
           <<PyStr(IF HasKey(api_key) THEN <<"h","e","a","l","t","h","y">> ELSE <<"u","n","h","e","a","l","t","h","y">>),
             PyStr(ModelName),
             PyBool(HasKey(api_key)),
             PyStr(IsoFormat(now))>>)

\* the reply of the /api/health route while ai_service is None
HealthUnavailableBody ==
    PyDict(<<K_status_h, K_error, K_timestamp>>,
           <<PyStr(<<"u","n","h","e","a","l","t","h","y">>), PyStr(<<"A","I"," ","s","e","r","v","i","c","e"," ","n","o","t"," ","i","n","i","t","i","a",
       "l","i","z","e","d">>), PyNone>>)

DetailBlank ==
    <<"T","r","a","n","s","c","r","i","p","t"," ","i","s"," ","r","e","q","u","i","r","e",
       "d"," ","a","n","d"," ","c","a","n","n","o","t"," ","b","e"," ","e","m","p","t","y">>

DetailNoService ==
    <<"A","I"," ","s","e","r","v","i","c","e"," ","i","s"," ","n","o","t"," ","a","v","a",
       "i","l","a","b","l","e">>

\* f"Internal server error: {str(e)}"
DetailInternal(msg) ==
    <<"I","n","t","e","r","n","a","l"," ","s","e","r","v","e","r"," ","e","r","r","o","r",
       ":"," ">> \o msg

\* an HTTPException(status_code, detail) as the client sees it
ErrorBody(detail) == PyDict(<<K_detail>>, <<PyStr(detail)>>)

(***************************************************************************)
(* Inputs of the model                                                     *)
(***************************************************************************)
\* the number of requests the server may have in flight at once
MaxInvocations == 2

\* the last value of the clock
MaxClock == 1

Slots == 1..MaxInvocations

\* the salts of str hashes a process may start with
HashSeeds == {0, 1}

\* os.environ.get('EMERGENT_LLM_KEY'): unset (None), empty, or a key
KeyUnset == [set |-> FALSE, val |-> <<>>]

KeyEmpty == [set |-> TRUE, val |-> <<>>]

KeyGiven == [set |-> TRUE, val |-> <<"s","k","-","1">>]

Environments == {KeyUnset, KeyEmpty, KeyGiven}

T_FirstPerson ==
    <<"A","l","i","c","e",":"," ","I"," ","w","i","l","l"," ","f","i","n","i","s","h"," ",
       "t","h","e"," ","r","e","p","o","r","t"," ","b","y"," ","F","r","i","d","a","y",".",
       " ","B","o","b",":"," ","I"," ","a","g","r","e","e","d"," ","t","o"," ","r","e","v",
       "i","e","w"," ","i","t",".">>

T_ThirdPerson ==
    <<"A","l","i","c","e"," ","w","i","l","l"," ","f","i","n","i","s","h"," ","t","h","e",
       " ","r","e","p","o","r","t"," ","b","y"," ","F","r","i","d","a","y","."," ","B","o",
       "b"," ","a","g","r","e","e","d"," ","t","o"," ","r","e","v","i","e","w"," ","i","t",
       ".">>

T_Junk ==
    <<"T","e","a","m",":"," ","L","e","t","'","s"," ","m","e","e","t","."," ","D","a","t",
       "e",":"," ","M","o","n","d","a","y","."," ","A","l","i","c","e",":"," ","G","o","o",
       "d"," ","m","o","r","n","i","n","g",".">>

T_Lowercase ==
    <<"w","e"," ","w","i","l","l"," ","s","h","i","p"," ","i","t",".">>

\* transcripts the route accepts
Transcripts == {T_FirstPerson, T_ThirdPerson, T_Junk, T_Lowercase}

\* transcripts the route rejects: not transcript or not transcript.strip()
BlankTranscripts ==
    { <<>>, <<" ","\n">> }

\* values of "transcript" that are no str: the route rejects the ones that
\* are false and fails on the others
OtherTranscripts ==
    {PyNone, PyNum(<<"0">>), PyNum(<<"5">>), PyList(<<PyStr(<<"x">>)>>)}

\* the bodies a client may post: an object with a transcript, or without
Payloads ==
    {PyDict(<<K_transcript>>, <<v>>) :
        v \in {PyStr(t) : t \in Transcripts \cup BlankTranscripts}
              \cup OtherTranscripts}
    \cup {PyDict(<<>>, <<>>)}

J_Full ==
    <<"{","\"","s","u","m","m","a","r","y","\"",":"," ","[","\"","s","\"","]",","," ","\"",
       "d","e","c","i","s","i","o","n","s","\"",":"," ","[","\"","d","\"","]",","," ","\"",
       "a","g","e","n","d","a","\"",":"," ","[","\"","a","\"","]",","," ","\"","p","a","r",
       "t","i","c","i","p","a","n","t","s","\"",":"," ","[","\"","A","l","i","c","e","\"",
       ","," ","\"","B","o","b","\"","]",","," ","\"","t","o","p","i","c","s","\"",":"," ",
       "[","{","\"","t","o","p","i","c","\"",":"," ","\"","t","\"",","," ","\"","c","o","n",
       "f","i","d","e","n","c","e","\"",":"," ","0",".","9","}","]",","," ","\"","a","c",
       "t","i","o","n","I","t","e","m","s","\"",":"," ","[","{","\"","t","a","s","k","\"",
       ":"," ","\"","x","\"",","," ","\"","o","w","n","e","r","\"",":"," ","\"","B","o","b",
       "\"",","," ","\"","d","e","a","d","l","i","n","e","\"",":"," ","\"","F","r","i","\"",
       ","," ","\"","s","t","a","t","u","s","\"",":"," ","\"","D","o","n","e","\"","}","]",
       "}">>

J_Junk ==
    <<"{","\"","s","u","m","m","a","r","y","\"",":"," ","[","]",","," ","\"","d","e","c",
       "i","s","i","o","n","s","\"",":"," ","[","]",","," ","\"","a","g","e","n","d","a",
       "\"",":"," ","[","]",","," ","\"","p","a","r","t","i","c","i","p","a","n","t","s",
       "\"",":"," ","[","\""," ","B","o","b"," ","\"",","," ","\"","B","o","b","\"",","," ",
       "\"","T","e","a","m","\"",","," ","\"","A","l","\"","]",","," ","\"","t","o","p","i",
       "c","s","\"",":"," ","[","]",","," ","\"","a","c","t","i","o","n","I","t","e","m",
       "s","\"",":"," ","[","]","}">>

J_NoParticipants ==
    <<"{","\"","s","u","m","m","a","r","y","\"",":"," ","[","\"","s","\"","]",","," ","\"",
       "d","e","c","i","s","i","o","n","s","\"",":"," ","[","]",","," ","\"","a","g","e",
       "n","d","a","\"",":"," ","[","]",","," ","\"","p","a","r","t","i","c","i","p","a",
       "n","t","s","\"",":"," ","[","]",","," ","\"","t","o","p","i","c","s","\"",":"," ",
       "[","]",","," ","\"","a","c","t","i","o","n","I","t","e","m","s","\"",":"," ","[",
       "{","\"","t","a","s","k","\"",":"," ","\"","x","\"",","," ","\"","o","w","n","e","r",
       "\"",":"," ","\"","B","o","b","\"","}","]","}">>

J_Scalars ==
    <<"{","\"","s","u","m","m","a","r","y","\"",":"," ","\"","t","e","x","t","\"",","," ",
       "\"","d","e","c","i","s","i","o","n","s","\"",":"," ","5",","," ","\"","a","g","e",
       "n","d","a","\"",":"," ","n","u","l","l",","," ","\"","p","a","r","t","i","c","i",
       "p","a","n","t","s","\"",":"," ","[","\"","A","l","\"","]",","," ","\"","t","o","p",
       "i","c","s","\"",":"," ","{","\"","a","\"",":"," ","1","}",","," ","\"","a","c","t",
       "i","o","n","I","t","e","m","s","\"",":"," ","\"","x","\"","}">>

J_Empty ==
    <<"{","}">>

J_List ==
    <<"[","1",","," ","2","]">>

J_NumberInParticipants ==
    <<"{","\"","p","a","r","t","i","c","i","p","a","n","t","s","\"",":"," ","[","1","]",
       "}">>

J_ParticipantsNumber ==
    <<"{","\"","p","a","r","t","i","c","i","p","a","n","t","s","\"",":"," ","5","}">>

J_Escapes ==
    <<"{","\"","s","u","m","m","a","r","y","\"",":"," ","[","\"","c","a","f","\\","u","0",
       "0","e","9"," ","\\","b","\\","f"," ","\\","u","d","8","3","d","\\","u","d","e","0",
       "0","\"","]",","," ","\"","p","a","r","t","i","c","i","p","a","n","t","s","\"",":",
       " ","[","\"","\\","u","0","0","c","9","r","i","c","\"",","," ","\"","Z","o","\\","u",
       "0","0","E","B","\"",","," ","\"","\\","u","0","0","e","9","r","i","c","\"","]","}">>

J_TinyParticipants ==
    <<"{","\"","p","a","r","t","i","c","i","p","a","n","t","s","\"",":"," ","1","e","-",
       "4","0","0","}">>

NotJson ==
    <<"S","o","r","r","y",","," ","I"," ","c","a","n","n","o","t"," ","d","o"," ","t","h",
       "a","t",".">>

\* the JSON documents a reply may hold
JsonDocs ==
    {J_Full, J_Junk, J_NoParticipants, J_Scalars, J_Empty, J_List,
     J_NumberInParticipants, J_ParticipantsNumber, J_Escapes,
     J_TinyParticipants}

\* the markers that open a markdown code fence
FenceMarkers == {FenceOpen, FenceClose}

\* a document inside a code fence opened by marker open
Fenced(open, inner) == open \o <<"\n">> \o inner \o <<"\n">> \o FenceClose

\* the texts the remote call may return
Replies ==
    JsonDocs \cup {NotJson}
    \cup {Fenced(open, J_Full) : open \in FenceMarkers}

\* the exceptions the remote call may raise
\* CancelledError is what the await raises when the task of the request is
\* cancelled while it waits for the reply
RemoteErrors == {"ConnectionError", "TimeoutError", "CancelledError"}

\* str() of the exception the remote call raises
RemoteMessage(e) ==
    IF e = "ConnectionError" THEN <<"C","o","n","n","e","c","t","i","o","n"," ","r","e","f","u","s","e","d">> ELSE <<>>

\* what the remote call may do
Outcomes ==
    {RemoteText(r) : r \in Replies}
    \cup {RemoteError(e, RemoteMessage(e)) : e \in RemoteErrors}

(***************************************************************************)
(* The results of the pure functions over the inputs of the model, each    *)
(* evaluated once                                                          *)
(***************************************************************************)
Clock == 0..MaxClock

ProcessTable ==
    [t \in Transcripts, o \in Outcomes, n \in Clock, sd \in HashSeeds |->
        ProcessTranscript(t, o, n, sd)]

PrimaryTable ==
    [t \in Transcripts, o \in Outcomes, n \in Clock, sd \in HashSeeds |->
        PrimaryPath(t, o, n, sd)]

ParticipantsTable ==
    [t \in Transcripts, sd \in HashSeeds |->
        ExtractParticipantsFallback(t, sd)]

ActionItemsTable ==
    [t \in Transcripts |-> ExtractActionItemsFallback(t)]

FallbackTable ==
    [t \in Transcripts, n \in Clock, sd \in HashSeeds |->
        FallbackProcess(t, n, sd)]

\* json.loads of each document
DocTable == [d \in JsonDocs |-> JsonLoads(d)]

(***************************************************************************)
(* The server: state                                                       *)
(***************************************************************************)
VARIABLES
    environ,        \* EMERGENT_LLM_KEY in the environment of the process
    hashseed,       \* the salt of str hashes of the process
    started,        \* whether server.py has been loaded
    ai_service,     \* the module global: [up, api_key]; not up is None
    chat_clients,   \* the number of LlmChat clients constructed
    pc,             \* per request slot: "idle", or "awaiting" the remote call
    request,        \* per slot: the transcript of the payload the client sent
    transcript_arg,     \* per slot: the argument of process_transcript
    remote_calls,   \* per slot: send_message calls of the invocation so far
    clock,          \* the UTC clock
    last,           \* the step just taken and what it returned
    participants_arg,   \* the argument of _clean_participants called alone
    clean_returns   \* what the successive calls of it returned

vars ==
    <<environ, hashseed, started, ai_service, chat_clients, pc, request,
      transcript_arg, remote_calls, clock, last, participants_arg, clean_returns>>

NoService == [up |-> FALSE, api_key |-> KeyUnset]

NoRemote == [raised |-> "", msg |-> <<>>, text |-> <<>>]

\* an entry of last
Step(op, slot, status, exc, payload, remote, calls, body) ==
    [op |-> op, slot |-> slot, status |-> status, exc |-> exc,
     payload |-> payload, remote |-> remote, calls |-> calls, body |-> body]

Init ==
    /\ environ \in Environments
    /\ hashseed \in HashSeeds
    /\ started = FALSE
    /\ ai_service = NoService
    /\ chat_clients = 0
    /\ pc = [i \in Slots |-> "idle"]
    /\ request = [i \in Slots |-> <<>>]
    /\ transcript_arg = [i \in Slots |-> <<>>]
    /\ remote_calls = [i \in Slots |-> 0]
    /\ clock = 0
    /\ last = Step("none", 0, 0, "", PyNone, NoRemote, 0, PyNone)
    /\ participants_arg = PyList(<<>>)
    /\ clean_returns = <<>>

(***************************************************************************)
(* The server: operations                                                  *)
(***************************************************************************)
\* "if self.api_key is None" in place of "if not self.api_key"
KeyIsNone(key) == ~key.set

\* "if not self.api_key: raise ValueError" of AIService.__init__
KeyMissing(key) == ~HasKey(key)

\* server.py at import: try: ai_service = AIService() except: ai_service = None
Startup ==
    /\ ~started
    /\ started' = TRUE
    /\ IF KeyMissing(environ)
       THEN /\ ai_service' = NoService
            /\ chat_clients' = chat_clients
            /\ last' = Step("startup", 0, 0, "ValueError", PyNone, NoRemote,
                            0, PyNone)
       ELSE /\ ai_service' = [up |-> TRUE, api_key |-> environ]
            /\ chat_clients' = chat_clients + 1
            /\ last' = Step("startup", 0, 0, "", PyNone, NoRemote, 0, PyNone)
    /\ UNCHANGED <<environ, hashseed, pc, request, transcript_arg, remote_calls,
                   clock, participants_arg, clean_returns>>

\* payload.get("transcript", "")
TranscriptOf(payload) ==
    IF DictHas(payload, K_transcript) THEN DictGet(payload, K_transcript)
    ELSE PyStr(<<>>)

\* "not transcript or not transcript.strip()" of ai_minutes: True or False,
\* or the AttributeError of a value that is true and has no strip
IsBlank(transcript) ==
    IF ~Truthy(transcript) THEN Returns(PyBool(TRUE))
    ELSE IF transcript.t # "str"
         THEN Raises("AttributeError", NoAttribute(transcript, <<"s","t","r","i","p">>))
    ELSE Returns(PyBool(Len(Strip(transcript.s)) = 0))

\* the parameter transcript of the invocation in slot i
LocalTranscript(tr, i) == tr[i]

\* POST /api/ai-minutes, up to the first await: the route checks the payload
\* and the service, process_transcript and _ai_process build the prompt and
\* send it
AiMinutes(i, payload) ==
    /\ started
    /\ pc[i] = "idle"
    /\ LET transcript == TranscriptOf(payload)
           blank == IsBlank(transcript)
       IN  IF blank.exc # ""
           THEN /\ last' = Step("ai_minutes", i, 500, blank.exc, transcript,
                                NoRemote, 0,
                                ErrorBody(DetailInternal(blank.msg)))
                /\ UNCHANGED <<pc, request, transcript_arg, remote_calls>>
           ELSE IF blank.val = PyBool(TRUE)
           THEN /\ last' = Step("ai_minutes", i, 400, "", transcript,
                                NoRemote, 0, ErrorBody(DetailBlank))
                /\ UNCHANGED <<pc, request, transcript_arg, remote_calls>>
           ELSE IF ~ai_service.up
           THEN /\ last' = Step("ai_minutes", i, 503, "", transcript,
                                NoRemote, 0, ErrorBody(DetailNoService))
                /\ UNCHANGED <<pc, request, transcript_arg, remote_calls>>
           ELSE /\ pc' = [pc EXCEPT ![i] = "awaiting"]
                /\ request' = [request EXCEPT ![i] = transcript.s]
                /\ transcript_arg' = [transcript_arg EXCEPT
                                         ![i] = transcript.s]
                /\ remote_calls' = [remote_calls EXCEPT ![i] = 1]
                /\ last' = Step("send_message", i, 0, "", transcript,
                                NoRemote, 1, PyNone)
    /\ UNCHANGED <<environ, hashseed, started, ai_service, chat_clients, clock,
                   participants_arg, clean_returns>>

\* the remote call of slot i ends with outcome o: the rest of
\* process_transcript runs without suspending, and the route answers
RemoteEnds(i, o) ==
    /\ pc[i] = "awaiting"
    /\ LET t == LocalTranscript(transcript_arg, i)
           p == PrimaryTable[t, o, clock, hashseed]
           r == ProcessTable[t, o, clock, hashseed]
       IN  IF p.exc # "" /\ RetryAfterFailure(p, remote_calls[i])
           THEN /\ remote_calls' = [remote_calls EXCEPT ![i] = @ + 1]
                /\ last' = Step("send_message", i, 0, "", PyStr(request[i]),
                                o, remote_calls[i] + 1, PyNone)
                /\ UNCHANGED <<pc, request, transcript_arg>>
           ELSE /\ pc' = [pc EXCEPT ![i] = "idle"]
                /\ request' = [request EXCEPT ![i] = <<>>]
                /\ transcript_arg' = [transcript_arg EXCEPT ![i] = <<>>]
                /\ remote_calls' = [remote_calls EXCEPT ![i] = 0]
                /\ last' = IF r.exc = ""
                           THEN Step("process_transcript", i, 200, "",
                                     PyStr(request[i]), o, remote_calls[i],
                                     r.val)
                           ELSE IF CaughtByRoute(r.exc)
                           THEN Step("process_transcript", i, 500, r.exc,
                                     PyStr(request[i]), o, remote_calls[i],
                                     ErrorBody(DetailInternal(r.msg)))
                           ELSE Step("process_transcript", i, 0, r.exc,
                                     PyStr(request[i]), o, remote_calls[i],
                                     PyNone)
    /\ UNCHANGED <<environ, hashseed, started, ai_service, chat_clients, clock,
                   participants_arg, clean_returns>>

\* GET /api/health
HealthCheck ==
    /\ started
    /\ last' = IF ai_service.up
               THEN Step("health_check", 0, 200, "", PyNone, NoRemote, 0,
                         HealthCheckBody(ai_service.api_key, clock))
               ELSE Step("health_unavailable", 0, 200, "", PyNone, NoRemote,
                         0, HealthUnavailableBody)
    /\ UNCHANGED <<environ, hashseed, started, ai_service, chat_clients, pc,
                   request, transcript_arg, remote_calls, clock,
                   participants_arg, clean_returns>>

\* time passes
Tick ==
    /\ clock < MaxClock
    /\ clock' = clock + 1
    /\ last' = Step("tick", 0, 0, "", PyNone, NoRemote, 0, PyNone)
    /\ UNCHANGED <<environ, hashseed, started, ai_service, chat_clients, pc,
                   request, transcript_arg, remote_calls, participants_arg,
                   clean_returns>>

Next ==
    \/ Startup
    \/ \E i \in Slots, payload \in Payloads : AiMinutes(i, payload)
    \/ \E i \in Slots, o \in Outcomes : RemoteEnds(i, o)
    \/ HealthCheck
    \/ Tick

Spec == Init /\ [][Next]_vars

(***************************************************************************)
(* _clean_participants called alone, on its own result                     *)
(***************************************************************************)
\* the longest list of entries given
MaxLen == 3

\* the number of successive calls
MaxCalls == 2

\* entries of a participants list: a name, the name padded, a stop word, a
\* lowercase initial, a link, a handle, one letter, a name of two words
Entries ==
    { PyStr(<<"B","o","b">>), PyStr(<<" "," ","B","o","b"," ">>), PyStr(<<"T","e","a","m">>), PyStr(<<"a","l","i","c","e">>),
      PyStr(<<"H","t","t","p",":","/","/","a">>), PyStr(<<"@","A","l">>), PyStr(<<"A">>), PyStr(<<"A","l"," ","B","o">>) }

\* the lists of at most MaxLen entries
EntryLists ==
    UNION {[1..n -> Entries] : n \in 0..MaxLen}

CleanInit ==
    /\ participants_arg \in {PyList(xs) : xs \in EntryLists}
    /\ clean_returns = <<>>
    /\ environ = KeyGiven
    /\ hashseed = 0
    /\ started = FALSE
    /\ ai_service = NoService
    /\ chat_clients = 0
    /\ pc = [i \in Slots |-> "idle"]
    /\ request = [i \in Slots |-> <<>>]
    /\ transcript_arg = [i \in Slots |-> <<>>]
    /\ remote_calls = [i \in Slots |-> 0]
    /\ clock = 0
    /\ last = Step("none", 0, 0, "", PyNone, NoRemote, 0, PyNone)

\* self._clean_participants(participants) on the list given
CleanFirst ==
    /\ clean_returns = <<>>
    /\ clean_returns' = <<CleanParticipants(participants_arg)>>
    /\ UNCHANGED <<environ, hashseed, started, ai_service, chat_clients, pc,
                   request, transcript_arg, remote_calls, clock, last,
                   participants_arg>>

\* self._clean_participants on the list the call before returned
CleanAgain ==
    /\ clean_returns # <<>>
    /\ Len(clean_returns) < MaxCalls
    /\ clean_returns[Len(clean_returns)].exc = ""
    /\ clean_returns' = Append(clean_returns,
                         CleanParticipants(clean_returns[Len(clean_returns)].val))
    /\ UNCHANGED <<environ, hashseed, started, ai_service, chat_clients, pc,
                   request, transcript_arg, remote_calls, clock, last,
                   participants_arg>>

CleanNext ==
    \/ CleanFirst
    \/ CleanAgain

CleanSpec == CleanInit /\ [][CleanNext]_vars

(***************************************************************************)
(* Properties                                                              *)
(***************************************************************************)
\* the step just taken is the end of a process_transcript call
Completed == last.op = "process_transcript"

\* what the try block of the completed call came to
PrimaryOutcome ==
    PrimaryTable[last.payload.s, last.remote, clock, hashseed]

\* field k of the record the completed call returned
Field(k) == DictGet(last.body, k)

\* C1 as stated: process_transcript never raises to its caller: whatever
\* the remote call did, the call returns a record, and when the remote call,
\* parsing the reply or validation failed, the record is the fallback record.
C1_Original ==
    Completed =>
        /\ last.exc = ""
        /\ last.status = 200
        /\ PrimaryOutcome.exc # ""
              => last.body = FallbackTable[last.payload.s, clock, hashseed]

\* C1, amended: when the remote call returns a text or raises an exception
\* that derives from Exception, process_transcript returns a record, and when
\* the remote call, parsing the reply or validation failed, the record is the
\* fallback record; an exception of the remote call that does not derive from
\* Exception is raised to the caller, and the route raises it in turn.
C1_Amended ==
    Completed =>
        IF last.remote.raised \in NotExceptions
        THEN /\ last.exc = last.remote.raised
             /\ last.status = 0
             /\ last.body = PyNone
        ELSE /\ last.exc = ""
             /\ last.status = 200
             /\ PrimaryOutcome.exc # ""
                   => last.body
                        = FallbackTable[last.payload.s, clock, hashseed]

\* a call whose remote call raised has returned
C1_Witness ==
    /\ Completed
    /\ last.remote.raised = "ConnectionError"
    /\ last.status = 200

ContentFields ==
    {K_summary, K_decisions, K_agenda, K_participants, K_topics,
     K_actionItems}

\* C2: every record returned holds the six content fields, processed_at and
\* model_used, and each content field is a sequence.
C2_FieldsAreSequences ==
    Completed /\ last.status = 200 =>
        /\ \A k \in ContentFields \cup {K_processed_at, K_model_used} :
              DictHas(last.body, k)
        /\ \A k \in ContentFields : Field(k).t = "list"

\* C3: in every record returned, participants has no two equal entries and
\* no entry whose lowercased form is a stop word.
C3_ParticipantsClean ==
    Completed /\ last.status = 200 =>
        /\ Field(K_participants).t = "list"
        /\ \A i, j \in 1..Len(Field(K_participants).items) :
              i # j => Field(K_participants).items[i]
                          # Field(K_participants).items[j]
        /\ \A i \in 1..Len(Field(K_participants).items) :
              /\ Field(K_participants).items[i].t = "str"
              /\ Lower(Field(K_participants).items[i].s) \notin JunkWords

\* a reply with a padded name, a repeated name and a stop word came back,
\* and two names were returned
C3_Witness ==
    /\ Completed
    /\ last.remote = RemoteText(J_Junk)
    /\ Len(Field(K_participants).items) = 2

C4_ModelUsed ==
    PyStr(<<"f","a","l","l","b","a","c","k","/","r","e","g","e","x">>)

C4_Agenda ==
    PyList(<<PyStr(<<"G","e","n","e","r","a","l"," ","d","i","s","c","u","s","s","i","o","n">>)>>)

C4_TopicName ==
    PyStr(<<"G","e","n","e","r","a","l"," ","m","e","e","t","i","n","g"," ","d","i","s","c","u",
       "s","s","i","o","n">>)

C4_Topics ==
    PyList(<<PyDict(<<K_topic, K_confidence>>,
                    <<C4_TopicName, PyNum(<<"0",".","7">>)>>)>>)

C4_SummaryLine1 ==
    PyStr(<<"M","e","e","t","i","n","g"," ","t","r","a","n","s","c","r","i","p","t"," ","p","r",
       "o","c","e","s","s","e","d"," ","w","i","t","h"," ","f","a","l","l","b","a","c","k",
       " ","m","e","t","h","o","d">>)

C4_SummaryLine2 ==
    PyStr(<<"A","I"," ","p","r","o","c","e","s","s","i","n","g"," ","t","e","m","p","o","r","a",
       "r","i","l","y"," ","u","n","a","v","a","i","l","a","b","l","e">>)

\* the primary path failed: the try block of process_transcript raised,
\* because the remote call raised, because json.loads rejected the reply, or
\* because the parsed reply has a shape _ai_process or validation cannot use
PrimaryFailed == PrimaryOutcome.exc # ""

\* the primary path failed with an exception that derives from Exception
FellBack == PrimaryFailed /\ PrimaryOutcome.exc \notin NotExceptions

\* a record was returned, and it has model_used "fallback/regex", agenda
\* ["General discussion"], no decisions, the one fixed topic, the fixed
\* two-line summary, and the participants and action items of the two
\* fallback extractors run on the transcript
C4_FallbackRecord ==
    /\ last.exc = ""
    /\ last.status = 200
    /\ Field(K_model_used) = C4_ModelUsed
    /\ Field(K_agenda) = C4_Agenda
    /\ Field(K_decisions) = PyList(<<>>)
    /\ Field(K_topics) = C4_Topics
    /\ Field(K_summary) = PyList(<<C4_SummaryLine1, C4_SummaryLine2>>)
    /\ Field(K_participants) = ParticipantsTable[last.payload.s, hashseed]
    /\ Field(K_actionItems) = ActionItemsTable[last.payload.s]

\* C4 as stated: when the primary path fails (the remote call raises or its
\* reply cannot be parsed), process_transcript returns the fallback record.
C4_Original ==
    Completed /\ PrimaryFailed => C4_FallbackRecord

\* C4, amended: when the primary path fails with an exception that derives
\* from Exception (the remote call raises one, json.loads rejects the reply,
\* or the parsed reply has a shape the code cannot use), process_transcript
\* returns the fallback record; when the remote call raises an exception
\* that does not derive from Exception, process_transcript returns no record
\* and raises that exception.
C4_Amended ==
    Completed /\ PrimaryFailed =>
        IF PrimaryOutcome.exc \in NotExceptions
        THEN /\ last.exc = PrimaryOutcome.exc
             /\ last.status = 0
             /\ last.body = PyNone
        ELSE C4_FallbackRecord

\* a reply that is no JSON came back for a transcript with action items
C4_Witness ==
    /\ Completed
    /\ last.remote = RemoteText(NotJson)
    /\ last.payload = PyStr(T_ThirdPerson)
    /\ Len(Field(K_actionItems).items) = 2

\* whether v is a JSON object with the six required keys
HasRequiredKeys(v) ==
    /\ v.t = "dict"
    /\ \A k \in ContentFields : DictHas(v, k)

C5_ModelUsed ==
    PyStr(<<"o","p","e","n","a","i","/","g","p","t","-","4","o","-","m","i","n","i">>)

\* the object v with processed_at and model_used stamped at clock value now
C5_Stamped(v, now) ==
    DictSet(DictSet(v, K_processed_at, PyStr(IsoFormat(now))),
            K_model_used, C5_ModelUsed)

\* the replies that hold document d: bare, or in a fence opened by a marker
\* of marks
C5_Replies(d, marks) ==
    {RemoteText(d)} \cup {RemoteText(Fenced(m, d)) : m \in marks}

\* C5: for every reply that is a JSON object with all required keys, bare or
\* between a leading and a trailing fence marker (```json or ``` before the
\* object, ``` after it), the record returned is that object with
\* processed_at and model_used stamped, no field replaced.
C5_FencedReply ==
    \A d \in JsonDocs :
        (/\ Completed
         /\ last.remote \in C5_Replies(d, FenceMarkers)
         /\ DocTable[d].exc = ""
         /\ HasRequiredKeys(DocTable[d].val))
        => /\ last.status = 200
           /\ last.body = C5_Stamped(DocTable[d].val, clock)

\* C6: an invocation of process_transcript issues the remote call at most
\* once; after a failed call or a rejected reply it ends without calling
\* again, and the record it returns is the fallback record.
C6_AtMostOneCall ==
    /\ \A i \in Slots : remote_calls[i] <= 1
    /\ last.calls <= 1
    /\ (Completed /\ PrimaryOutcome.exc # "")
          => /\ last.calls = 1
             /\ last.status = 200
                   => last.body
                        = FallbackTable[last.payload.s, clock, hashseed]

\* an invocation whose reply was rejected has returned after one call
C6_Witness ==
    /\ Completed
    /\ last.remote = RemoteText(NotJson)
    /\ PrimaryOutcome.exc = "JSONDecodeError"
    /\ last.calls = 1

C8_Model ==
    PyStr(<<"o","p","e","n","a","i","/","g","p","t","-","4","o","-","m","i","n","i">>)

C8_Healthy ==
    PyStr(<<"h","e","a","l","t","h","y">>)

C8_Unhealthy ==
    PyStr(<<"u","n","h","e","a","l","t","h","y">>)

\* what health_check reports for key k at clock value now
C8_Report(k, now) ==
    /\ DictGet(HealthCheckBody(k, now), K_has_api_key) = PyBool(HasKey(k))
    /\ DictGet(HealthCheckBody(k, now), K_status_h)
          = (IF DictGet(HealthCheckBody(k, now), K_has_api_key) = PyBool(TRUE)
             THEN C8_Healthy ELSE C8_Unhealthy)
    /\ DictGet(HealthCheckBody(k, now), K_model) = C8_Model
    /\ DictGet(HealthCheckBody(k, now), K_timestamp) = PyStr(IsoFormat(now))

\* C8: a health_check step issues no remote call and changes nothing but
\* what it returns; it reports "healthy" exactly when has_api_key is true
\* and "unhealthy" otherwise, with the model name and a timestamp.
C8_HealthCheck ==
    [][last'.op = "health_check" =>
          /\ UNCHANGED <<environ, hashseed, started, ai_service, chat_clients,
                         pc, request, transcript_arg, remote_calls, clock>>
          /\ last'.calls = 0
          /\ last'.remote = NoRemote
          /\ last'.body = HealthCheckBody(ai_service.api_key, clock)
          /\ \A k \in Environments : C8_Report(k, clock)]_vars

\* health_check has answered while an invocation is waiting for its reply
C8_Witness ==
    /\ last.op = "health_check"
    /\ DictGet(last.body, K_status_h) = C8_Healthy
    /\ \E i \in Slots : pc[i] = "awaiting"

\* C9: without a credential (unset or empty) the construction of the
\* extractor fails before a chat client is created, and afterwards no
\* transcript is processed and no remote call is issued.
C9_NoCredential ==
    (~environ.set \/ Len(environ.val) = 0) =>
        /\ ~ai_service.up
        /\ chat_clients = 0
        /\ \A i \in Slots : pc[i] = "idle" /\ remote_calls[i] = 0
        /\ last.op \notin {"send_message", "process_transcript"}
        /\ last.op = "startup" => last.exc = "ValueError"
        /\ last.op = "ai_minutes" => last.status \in {400, 500, 503}

\* with an empty credential a transcript was posted and refused
C9_Witness ==
    /\ environ = KeyEmpty
    /\ started
    /\ last.op = "ai_minutes"
    /\ last.status = 503

\* whether text sub occurs in text t
Contains(t, sub) == \E i \in 1..Len(t) : LitAt(t, i, sub, FALSE)

C10_Alice == PyStr(<<"A","l","i","c","e">>)

C10_Bob == PyStr(<<"B","o","b">>)

C10_AliceTask ==
    <<"f","i","n","i","s","h"," ","t","h","e"," ","r","e","p","o","r","t"," ","b","y"," ",
       "F","r","i","d","a","y">>

C10_BobTask ==
    <<"r","e","v","i","e","w"," ","i","t">>

C10_NotSpecified ==
    PyStr(<<"N","o","t"," ","s","p","e","c","i","f","i","e","d">>)

C10_Pending == PyStr(<<"P","e","n","d","i","n","g">>)

\* the action items of the record returned
C10_Items == Field(K_actionItems).items

\* C10 as stated: for the speaker-prefixed transcript with first-person
\* commitments the fallback returns an item of Alice for "finish the report
\* by Friday", not specified and pending, and an item of Bob for "review it".
C10_Original ==
    (Completed /\ FellBack /\ last.payload = PyStr(T_FirstPerson)) =>
        /\ \E i \in 1..Len(C10_Items) :
              /\ DictGet(C10_Items[i], K_owner) = C10_Alice
              /\ Contains(DictGet(C10_Items[i], K_task).s, C10_AliceTask)
              /\ DictGet(C10_Items[i], K_deadline) = C10_NotSpecified
              /\ DictGet(C10_Items[i], K_status) = C10_Pending
        /\ \E i \in 1..Len(C10_Items) :
              /\ DictGet(C10_Items[i], K_owner) = C10_Bob
              /\ Contains(DictGet(C10_Items[i], K_task).s, C10_BobTask)

\* the action item of owner for task, as the fallback builds it
C10_Item(owner, task) ==
    PyDict(<<K_task, K_owner, K_deadline, K_status>>,
           <<PyStr(task), owner, C10_NotSpecified, C10_Pending>>)

\* C10, amended: the fallback attributes a commitment to the name that
\* stands right before the verb phrase.  For "Alice will finish the report by
\* Friday. Bob agreed to review it." it returns the item of Alice and the
\* item of Bob; for the speaker-prefixed transcript, where "I" stands before
\* the verb phrases, it returns no item.
C10_Amended ==
    (Completed /\ FellBack) =>
        /\ last.payload = PyStr(T_ThirdPerson) =>
              C10_Items = <<C10_Item(C10_Alice, C10_AliceTask),
                            C10_Item(C10_Bob, C10_BobTask)>>
        /\ last.payload = PyStr(T_FirstPerson) => C10_Items = <<>>

\* the fallback ran on the speaker-prefixed transcript and found no item
C10_Witness ==
    /\ Completed
    /\ FellBack
    /\ last.payload = PyStr(T_FirstPerson)
    /\ C10_Items = <<>>

\* the record _ai_process returns for document d at clock value now, with
\* the content fields it lacks set to the empty list
C11_Before(d, now) ==
    EnsureFields(DictSet(DictSet(DocTable[d].val, K_processed_at,
                                 PyStr(IsoFormat(now))),
                         K_model_used, PyStr(ModelName)))

\* the participants value p after cleaning: cleaned when it is not empty
C11_Cleaned(p) == IF Truthy(p) THEN CleanParticipants(p).val ELSE p

\* the participants validation returns for value p of transcript t
C11_Participants(p, t) ==
    IF Truthy(C11_Cleaned(p)) THEN C11_Cleaned(p)
    ELSE ParticipantsTable[t, hashseed]

\* the action items validation returns for value a of transcript t
C11_ActionItems(a, t) == IF Truthy(a) THEN a ELSE ActionItemsTable[t]

\* the fields validation has no rule for
C11_Untouched ==
    {K_summary, K_decisions, K_agenda, K_topics, K_processed_at, K_model_used}

\* whether the two sequences hold the same elements
C11_SameKeys(a, b) ==
    {a[i] : i \in 1..Len(a)} = {b[i] : i \in 1..Len(b)}

\* C11: validation of a parsed record changes only what its rules name:
\* participants becomes the cleaned list if that is not empty and the
\* fallback extraction of the transcript otherwise, actionItems becomes the
\* fallback extraction only when it is empty, summary, decisions, agenda,
\* topics, processed_at and model_used come back as they were, a missing
\* content field comes back as the empty list, and no key is added or lost.
C11_FrameOfValidation ==
    \A d \in JsonDocs :
        (/\ Completed
         /\ last.remote = RemoteText(d)
         /\ PrimaryOutcome.exc = "")
        => /\ \A k \in C11_Untouched :
                 Field(k) = DictGet(C11_Before(d, clock), k)
           /\ \A k \in C11_Untouched \ {K_processed_at, K_model_used} :
                 ~DictHas(DocTable[d].val, k) => Field(k) = PyList(<<>>)
           /\ Field(K_participants)
                 = C11_Participants(DictGet(C11_Before(d, clock),
                                            K_participants), last.payload.s)
           /\ Field(K_actionItems)
                 = C11_ActionItems(DictGet(C11_Before(d, clock),
                                           K_actionItems), last.payload.s)
           /\ C11_SameKeys(last.body.keys, C11_Before(d, clock).keys)

\* a record with a padded, a repeated and a stop-word participant and no
\* action items was validated: two names were kept, the two action items of
\* the transcript were filled in, and the empty summary stayed empty
C11_Witness ==
    /\ Completed
    /\ last.remote = RemoteText(J_Junk)
    /\ last.payload = PyStr(T_ThirdPerson)
    /\ PrimaryOutcome.exc = ""
    /\ Len(Field(K_participants).items) = 2
    /\ Len(Field(K_actionItems).items) = 2
    /\ Field(K_summary) = PyList(<<>>)

\* C12: participant cleaning is idempotent: cleaning the list that cleaning
\* returned gives that list again, for lists with padded, repeated,
\* stop-word, lowercase, link and handle entries.
C12_Idempotent ==
    \A i \in 2..Len(clean_returns) : clean_returns[i] = clean_returns[1]

\* a list with the padded name before the name itself and a stop word was
\* cleaned twice, and the first cleaning changed it to one name
C12_Witness ==
    /\ Len(clean_returns) = 2
    /\ participants_arg = PyList(<<PyStr(<<" "," ","B","o","b"," ">>), PyStr(<<"B","o","b">>), PyStr(<<"T","e","a","m">>)>>)
    /\ clean_returns[1].val = PyList(<<PyStr(<<"B","o","b">>)>>)

\* whether every word of name starts with an uppercase letter
C13_Capitalized(name) ==
    /\ Len(name) > 0
    /\ \A i \in 1..Len(name) :
          (i = 1 \/ IsSpace(name[i - 1])) => IsUpper(name[i])

\* C13: every action item of the fallback extraction has a capitalized name
\* as its owner; the verb phrases alone are matched without regard to case,
\* so a lowercase subject such as "we will ..." gives no action item.
C13_OwnersCapitalized ==
    (Completed /\ FellBack) =>
        \A i \in 1..Len(Field(K_actionItems).items) :
            C13_Capitalized(DictGet(Field(K_actionItems).items[i], K_owner).s)

\* where name first occurs in transcript t
C14_FirstAt(t, name) ==
    CHOOSE p \in 1..Len(t) :
        /\ LitAt(t, p, name, FALSE)
        /\ \A q \in 1..(p - 1) : ~LitAt(t, q, name, FALSE)

\* C14: the participants of a record of the fallback extraction stand in
\* the order of their first occurrence in the transcript.
C14_OrderPreserved ==
    (Completed /\ FellBack) =>
        \A i, j \in 1..Len(Field(K_participants).items) :
            i < j => C14_FirstAt(last.payload.s, Field(K_participants).items[i].s)
                       < C14_FirstAt(last.payload.s,
                                     Field(K_participants).items[j].s)

====
